---- MODULE Spec2Model ----
(***************************************************************************)
(* Delta sync of NotionTaskMigrator: the link ledger (services/link_store), *)
(* the target workspace, and the reconciler in its three script variants:   *)
(*   impl = "index" : delta_sync/index.js with fetch_source, filter_eligible,*)
(*                    sync_task, cleanup_orphans and archive_page;          *)
(*   impl = "mono"  : the single-file delta_sync.js;                        *)
(*   impl = "stale" : the earlier sync_if_stale.js (archive first, no catch, *)
(*                    no orphan sweep).                                     *)
(* Time is counted in ticks; MinuteLen ticks make one minute.               *)
(***************************************************************************)
EXTENDS Integers, Sequences, FiniteSets, TLC

\* ------------------------------------------------------------------ bounds
NumSources == 2
MaxPages == 3
MaxClock == 2
MaxRuns == 3
MinuteLen == 1
MaxFaults == 1
MaxRecords == 251
MaxSkipped == 1
MaxStoreOps == 3
ChunkSize == 2
MaxParallel == 2
MaxCalls == 2
MaxFiles == 2
MaxRestarts == 1
MaxBlocks == 2
MaxChildren == 1
MaxSize == 24
MaxFanout == 2
MaxTasks == 3

\* ------------------------------------------------------ values of the code
NoId == 0
NoTime == -1
Epoch == 0
ConsecutiveLimit == 3
TotalLimit == 50
GraceRecords == 10
RatePercent == 20
MaxAttempts == 15
Retries == 3
BackoffMs == 500

Sources == 1..NumSources
PageIds == 1..MaxPages
StartClock == MinuteLen

ReplacedNote == "Replaced due to drift"
OrphanNote == "Archived due to missing source"
TypeErrorMsg == "Cannot read properties of undefined"

VARIABLES
    impl,          \* which script runs against this ledger partition
    clock,         \* wall clock, in ticks
    source,        \* source DB: page id -> last_edited_time, NoTime when absent
    links,         \* ledger partition: sourceId -> persisted record (a file each)
    target,        \* target workspace: page id -> [state, forSource]
    runs,          \* runs started so far
    pc,            \* position of the running script
    config,        \* {dryRun, force, onlyId, strictMode} of the run
    runtimeStart,  \* the run's runtimeStart
    allPages,      \* pages fetched by the run, in stream order
    eligiblePages, \* pages the run loops over
    idx,           \* loop position in eligiblePages
    existing,      \* the loaded link of the current page: <<>> or <<link>>
    needsSync,     \* the decision computed for the current page
    newPage,       \* newPage?.id of the current attempt, NoId while null
    link,          \* the link object built by the current attempt
    err,           \* err.message of the caught error
    tally,         \* [updated, skipped, failed]
    breaker,       \* [inARow, total, processed] of delta_sync.js
    orphans,       \* orphaned links still to sweep
    faults,        \* failing answers of the collaborators so far (bounded by MaxFaults)
    ghost,         \* observations used to state properties, never read by the code
    disk,          \* the links directory: partition (migration type) -> sourceId -> file
    result,        \* the last LinkStore call on disk: its arguments and what it returned
    sizes,         \* the bytes behind the media URLs: sha256 -> size
    manifestFile,  \* media_manifest.json in the staging directory: <<>> or <<content>>
    mig,           \* the MediaMigrator instance: caches and in-memory manifest
    call,          \* the running (or last) processFiles call
    up,            \* the upload the call is in
    net,           \* requests sent so far, as the remote ends see them
    wait,          \* a _waitUntilUploaded call followed turn by turn
    xform,         \* a transformMediaBlocks call: its argument and what it returned
    parts,         \* an _uploadFile call seen from the file: the byte ranges read
    app,           \* an appendBlocksRecursively call: its queue and what it has written
    job            \* a run of migrate_tasks.js: its loop position and counters

vars == <<impl, clock, source, links, target, runs, pc, config, runtimeStart,
          allPages, eligiblePages, idx, existing, needsSync, newPage, link, err,
          tally, breaker, orphans, faults, ghost, disk, result,
          sizes, manifestFile, mig, call, up, net, wait, xform, parts, app, job>>

storeVars == <<disk, result>>

mediaVars == <<sizes, manifestFile, mig, call, up, net, wait>>

toolVars == <<xform, parts, app, job>>

\* ------------------------------------------------------------------ helpers
Last(s) == s[Len(s)]

IsPrefix(s, t) == Len(s) <= Len(t) /\ \A i \in 1..Len(s) : s[i] = t[i]

\* new Date(); setSeconds(0, 0); setMinutes(getMinutes() - 1)
RuntimeStart(now) == (now - (now % MinuteLen)) - MinuteLen

\* for await (const p of getTasksFromDBA(..)) allPages.push(p)
RECURSIVE StreamFrom(_, _)
StreamFrom(src, s) ==
    IF s > NumSources THEN <<>>
    ELSE (IF src[s] = NoTime THEN <<>> ELSE <<[id |-> s, last_edited_time |-> src[s]]>>)
         \o StreamFrom(src, s + 1)

GetTasksFromDBA(src) == StreamFrom(src, 1)

PageIdsOf(pages) == {pages[i].id : i \in 1..Len(pages)}

\* ------------------------------------------------------------- link store
\* A file of a partition is the object its JSON text parses to: a record that
\* has exactly the keys the text has (an absent key reads as undefined), or
\* Malformed when JSON.parse throws on the text.
Has(data, f) == f \in DOMAIN data

Malformed == [malformed |-> TRUE]

Parses(content) == ~Has(content, "malformed")

\* the keys the Link constructor copies (those the model carries)
LinkFields == {"sourceId", "targetId", "status", "syncedAt", "type", "sourcePageName",
               "notes", "history"}

\* mutant: the earlier load, which builds the Link without its history
MkLinkNoHistory(data) ==
    [f \in ((DOMAIN data) \cap LinkFields) \cup {"notes", "history"} |->
        IF f = "notes" THEN (IF Has(data, "notes") THEN data.notes ELSE "")
        ELSE IF f = "history" THEN <<>>
        ELSE data[f]]

\* new Link({...data, notes: data.notes || '', history: data.history || []})
MkLink(data) ==
    [f \in ((DOMAIN data) \cap LinkFields) \cup {"notes", "history"} |->
        IF f = "notes" THEN (IF Has(data, "notes") THEN data.notes ELSE "")
        ELSE IF f = "history" THEN (IF Has(data, "history") THEN data.history ELSE <<>>)
        ELSE data[f]]

\* mutant: only a missing file makes load throw
LoadThrowsIfMissing(store, sourceId) == sourceId \notin DOMAIN store

\* LinkStore.load throws: fs.readFile rejects (no such file) or JSON.parse throws
LoadThrows(store, sourceId) ==
    sourceId \notin DOMAIN store \/ ~Parses(store[sourceId])

\* LinkStore.load(sourceId, type): the Link of the file
LinkStoreLoad(store, sourceId) == MkLink(store[sourceId])

\* linkStore.load(id, type).catch(() => null): <<>> stands for null
LoadOrNull(store, sourceId) ==
    IF LoadThrows(store, sourceId) THEN <<>> ELSE <<LinkStoreLoad(store, sourceId)>>

\* mutant: the earlier save, which never reads the stored file
PrevHistoryUnread(store, sourceId) == <<>>

\* LinkStore.save: prevHistory = prevData.history || [], [] when the read or the parse throws
PrevHistory(store, sourceId) ==
    IF sourceId \in DOMAIN store /\ Parses(store[sourceId]) /\ Has(store[sourceId], "history")
    THEN store[sourceId].history
    ELSE <<>>

\* LinkStore.save: merged = {...link, history: link.history ?? prevHistory}, written
\* to the file of link.sourceId
LinkStoreSave(store, l, historyGiven) ==
    LET prevHistory == PrevHistory(store, l.sourceId)
        merged == [f \in (DOMAIN l) \cup {"history"} |->
                      IF f = "history"
                      THEN (IF historyGiven THEN l.history ELSE prevHistory)
                      ELSE l[f]]
    IN [s \in DOMAIN store \cup {l.sourceId} |-> IF s = l.sourceId THEN merged ELSE store[s]]

\* the earlier LinkStore.save: JSON.stringify(link) written as given
LegacySave(store, l) ==
    [s \in DOMAIN store \cup {l.sourceId} |-> IF s = l.sourceId THEN l ELSE store[s]]

\* loadAll(type): full partition scan
LoadAll(store) == {MkLink(store[s]) : s \in DOMAIN store}

\* mutant: the scan matches on the name alone
NameMatchesAnyStatus(data, sourcePageName) ==
    /\ Parses(data)
    /\ Has(data, "sourcePageName") /\ data.sourcePageName = sourcePageName

\* findBySourcePageName: data.sourcePageName === sourcePageName && data.status === 'success';
\* a file that does not parse is skipped
NameMatches(data, sourcePageName) ==
    /\ Parses(data)
    /\ Has(data, "sourcePageName") /\ data.sourcePageName = sourcePageName
    /\ Has(data, "status") /\ data.status = "success"

\* findBySourcePageName(name, type): the Links the scan can return; it returns the
\* first match in the order fs.readdir lists the files, which the platform decides
FindBySourcePageName(store, sourcePageName) ==
    {MkLink(store[s]) : s \in {k \in DOMAIN store : NameMatches(store[k], sourcePageName)}}

Types == {"tasks", "tags"}

NoDisk == [t \in Types |-> <<>>]

NoResult ==
    [op |-> "none", n |-> 0, type |-> "", id |-> NoId, name |-> "", arg |-> <<>>,
     threw |-> FALSE, link |-> <<>>, needsSync |-> <<>>]

\* ---------------------------------------------------------- media migrator
\* The media behind the file references: u1 and u2 serve the same bytes (sha256
\* "a"), u3 other bytes ("b"); NoUrl is a file object without a usable url.
Urls == {"u1", "u2", "u3"}
NoUrl == ""
Shas == {"a", "b"}

\* crypto.createHash('sha256').update(buffer).digest('hex')
Sha256(url) == IF url = "u3" THEN "b" ELSE "a"

\* sizes of the assets: one that fits a chunk, one of MaxParallel chunks and a byte
SmallSize == ChunkSize
BigSize == MaxParallel * ChunkSize + 1

\* a Map or a plain object as a function; <<>> is the empty one
Put(f, key, value) == [x \in (DOMAIN f) \cup {key} |-> IF x = key THEN value ELSE f[x]]

\* Map.prototype.has(key): looks at the entries of the Map
MapHas(entries, key) == key \in DOMAIN entries

NoManifest == [downloads |-> <<>>, uploads |-> <<>>]

\* constructor: two empty Maps and an empty manifest. downloadProps and uploadProps
\* are the own properties of the two Map objects, which are not entries.
NewMigrator ==
    [downloadCache |-> <<>>, uploadCache |-> <<>>,
     downloadProps |-> <<>>, uploadProps |-> <<>>,
     manifest |-> NoManifest]

\* init(): if the manifest file exists, this.manifest = JSON.parse(..) and
\* Object.assign(this.downloadCache, manifest.downloads), likewise for uploads:
\* Object.assign copies the keys onto the Map objects as properties
MigratorInit(file) ==
    IF file = <<>> THEN NewMigrator
    ELSE [NewMigrator EXCEPT !.manifest = file[1],
                             !.downloadProps = file[1].downloads,
                             !.uploadProps = file[1].uploads]

\* flush(): the manifest file is rewritten from the entries of the two Maps
Flushed(m) == <<[downloads |-> m.downloadCache, uploads |-> m.uploadCache]>>

NoInfo == [path |-> "", size |-> 0, sha256 |-> ""]

NoCall ==
    [pc |-> "idle", n |-> 0, files |-> <<>>, k |-> 0, results |-> <<>>,
     localInfo |-> NoInfo, done |-> <<>>, threw |-> FALSE]

NoUpload ==
    [id |-> NoId, declared |-> 0, i |-> 0, inFlight |-> {}, sent |-> <<>>,
     acked |-> {}, refused |-> {}, completes |-> 0, status |-> ""]

\* the request the last step sent, if it sent one
NoReq == [kind |-> "", via |-> "", key |-> ""]

\* fetched, uploaded: the urls and contents this instance has got and put so far;
\* refs: the upload ids of the references it has returned, by content
NoNet ==
    [req |-> NoReq, fetched |-> {}, uploaded |-> {}, refs |-> [h \in Shas |-> {}],
     nextId |-> 1, stray |-> 0, restarts |-> 0]

NoWait == [pc |-> "", uploadId |-> NoId, attempt |-> 0, requests |-> 0, status |-> ""]

\* no media work: the state of the media variables in a run without media
MediaIdle ==
    /\ wait = NoWait
    /\ sizes = [h \in Shas |-> SmallSize]
    /\ manifestFile = <<>>
    /\ mig = NewMigrator
    /\ call = NoCall
    /\ up = NoUpload
    /\ net = NoNet

\* ------------------------------------------------------------ block trees
\* xform: blocks is the argument of transformMediaBlocks, uploadable the urls
\* processFiles gets a reference for, transformed the array it returned
NoTransform == [blocks |-> <<>>, uploadable |-> {}, transformed |-> <<>>, returned |-> FALSE]

\* no tool at work: the state of the tool variables in a run that uses none
\* parts: the size of the file, the upload mode chosen for it, and the ranges
\* [start, end] handed to fs.createReadStream, by part number
NoParts == [size |-> 0, mode |-> "", ranges |-> <<>>]

\* app: an appendBlocksRecursively call. q is its queue, each entry with the path
\* of its block in the tree (path is not in the code); pid, block, path the entry
\* in hand; i, attempts, waits, code the safeAppendBlocks call on it: the loop
\* index, the appends made, the delays slept and the code of the last error;
\* written the blocks created so far, in order, each with the id it was created
\* under and the id it got
NoAppend ==
    [pc |-> "", tree |-> <<>>, q |-> <<>>, pid |-> NoId,
     block |-> [type |-> "", children |-> <<>>], path |-> <<>>,
     i |-> 0, attempts |-> 0, waits |-> <<>>, code |-> "", written |-> <<>>, nextId |-> 1]

\* job: a run of migrate_tasks.js. before is the status of the link of each
\* fetched page when the run starts ("" when it has none), status the same now;
\* k the loop position; processed, skipped, failed the counters of main; wrote the
\* pages writeToDBB returned for in this run; report the final log line
NoReport == [migrated |-> 0, skipped |-> 0, failed |-> 0, total |-> 0]

NoJob ==
    [pc |-> "", before |-> <<>>, status |-> <<>>, k |-> 0, processed |-> 0, skipped |-> 0,
     failed |-> 0, wrote |-> {}, report |-> NoReport]

ToolsIdle ==
    /\ xform = NoTransform
    /\ parts = NoParts
    /\ app = NoAppend
    /\ job = NoJob

\* ------------------------------------------------------------ eligibility
\* new Date(existing.syncedAt || 0)
SyncedAtOrEpoch(l) ==
    IF ~Has(l, "syncedAt") \/ l.syncedAt = NoTime THEN Epoch ELSE l.syncedAt

\* mutant: the comparison admits equal timestamps
FilterNeedsSyncOrEqual(force, existingLink, lastEdited) ==
    force \/ existingLink = <<>> \/ lastEdited >= SyncedAtOrEpoch(existingLink[1])

\* filter_eligible.js: force || !existingLink || lastEdited > new Date(syncedAt || 0)
FilterNeedsSync(force, existingLink, lastEdited) ==
    force \/ existingLink = <<>> \/ lastEdited > SyncedAtOrEpoch(existingLink[1])

\* mutant: the comparison admits equal timestamps
TaskNeedsSyncOrEqual(force, existingLink, lastEdited) ==
    force \/ existingLink = <<>> \/ lastEdited >= SyncedAtOrEpoch(existingLink[1])

\* sync_task.js / delta_sync.js loop: the same test on the freshly loaded link
TaskNeedsSync(force, existingLink, lastEdited) ==
    force \/ existingLink = <<>> \/ lastEdited > SyncedAtOrEpoch(existingLink[1])

OnlyIdAdmits(onlyId, id) == onlyId = NoId \/ id = onlyId

\* filterEligible: the pages needing sync, in stream order
FilterEligible(pages, cfg, store) ==
    SelectSeq(pages, LAMBDA p :
        /\ OnlyIdAdmits(cfg.onlyId, p.id)
        /\ FilterNeedsSync(cfg.force, LoadOrNull(store, p.id), p.last_edited_time))

\* delta_sync.js: allPages.filter(...) tests a pending promise, which is truthy
\* and has no syncedAt, so the test reduces to lastEdited >= new Date(0)
MonoEligible(pages, cfg) ==
    SelectSeq(pages, LAMBDA p :
        /\ OnlyIdAdmits(cfg.onlyId, p.id)
        /\ (cfg.force \/ p.last_edited_time >= Epoch))

\* sync_if_stale.js: if (onlyId && onlyId !== sourceId) continue
StaleAdmitted(pages, cfg) == SelectSeq(pages, LAMBDA p : OnlyIdAdmits(cfg.onlyId, p.id))

\* ---------------------------------------------------------------- target
Created == {p \in PageIds : target[p].state # "none"}
FreshId == Cardinality(Created) + 1

\* notion.pages.update({page_id, archived: true}) answering ok, notfound (404: the
\* page was archived or removed before the call) or error (the page is untouched)
UpdateArchived(tgt, pageId, answer) ==
    IF answer \in {"ok", "notfound"} THEN [tgt EXCEPT ![pageId].state = "archived"]
    ELSE tgt

Answers == {"ok", "notfound", "error"}

\* archivePage(pageId, logger) / archivePageIfExists(pageId): TRUE when it throws.
\* Without a logger, logger.info and logger.warn themselves throw a TypeError.
ArchiveThrows(answer, hasLogger) == answer = "error" \/ ~hasLogger

ArchiveMessage(answer) == IF answer = "error" THEN "archive failed" ELSE TypeErrorMsg

\* ----------------------------------------------------------------- Init
NoLinkObj ==
    [sourceId |-> NoId, targetId |-> NoId, status |-> "", syncedAt |-> NoTime,
     notes |-> "", history |-> <<>>]

NoConfig == [dryRun |-> FALSE, force |-> FALSE, onlyId |-> NoId, strictMode |-> FALSE]

ZeroTally == [updated |-> 0, skipped |-> 0, failed |-> 0]
ZeroBreaker == [inARow |-> 0, total |-> 0, processed |-> 0]

Configs == [dryRun : BOOLEAN, force : BOOLEAN, onlyId : {NoId, 1}, strictMode : BOOLEAN]

\* steady:     the last run ended with every record synced and no source page has
\*             changed since it fetched them;  prevStart: that run's runtimeStart
\* rerun:      steady, as it stood when the current run started
\* callFailed: a transform, write or archive call of the current run failed
\* stale:      sources with a fail link saved by an earlier run, unmodified since,
\*             no call having failed in a run after it
\* retried:    the stale sources a whole later run (force off, no dry run, no
\*             onlyId, no failing call) has already ended over
\* failedNow:  sources whose fail link the current run saved
\* attemptFault: the same, for the attempt on the current page
\* outcome:    how the attempt on the current page ended, "" while it runs
\* chain:      per source, the targets made live by an unbroken succession of
\*             successful syncs; broken once a sync fails or the link is swept
\* swept:      per target page, the archive calls of the orphan sweep that returned
GhostInit ==
    [steady |-> FALSE, prevStart |-> NoTime, rerun |-> FALSE, callFailed |-> FALSE,
     attemptFault |-> FALSE, outcome |-> "", stale |-> {}, retried |-> {}, failedNow |-> {},
     chain |-> [s \in Sources |-> <<>>], broken |-> {},
     swept |-> [p \in PageIds |-> 0]]

SourceTouched(g, s) ==
    [g EXCEPT !.steady = FALSE, !.prevStart = NoTime, !.stale = @ \ {s},
              !.retried = @ \ {s}]

Init ==
    /\ impl \in {"index", "mono", "stale"}
    /\ clock = StartClock
    /\ source = [s \in Sources |-> NoTime]
    /\ links = <<>>
    /\ target = [p \in PageIds |-> [state |-> "none", forSource |-> NoId]]
    /\ runs = 0
    /\ pc = "idle"
    /\ config = NoConfig
    /\ runtimeStart = NoTime
    /\ allPages = <<>>
    /\ eligiblePages = <<>>
    /\ idx = 0
    /\ existing = <<>>
    /\ needsSync = FALSE
    /\ newPage = NoId
    /\ link = NoLinkObj
    /\ err = ""
    /\ tally = ZeroTally
    /\ breaker = ZeroBreaker
    /\ orphans = <<>>
    /\ faults = 0
    /\ ghost = GhostInit
    /\ disk = NoDisk
    /\ result = NoResult
    /\ MediaIdle
    /\ ToolsIdle

runLocals == <<config, runtimeStart, allPages, eligiblePages, idx, existing, needsSync,
               newPage, link, err, tally, breaker, orphans>>

\* ------------------------------------------------------------ environment
Tick ==
    /\ pc = "idle"
    /\ clock < MaxClock
    /\ clock' = clock + 1
    /\ UNCHANGED <<faults, impl, storeVars, mediaVars, toolVars, source, links, target, runs, pc, runLocals, ghost>>

\* a page appears in (or is restored to) the source database
CreateSource(s) ==
    /\ pc = "idle"
    /\ source[s] = NoTime
    /\ source' = [source EXCEPT ![s] = clock]
    /\ ghost' = SourceTouched(ghost, s)
    /\ UNCHANGED <<faults, impl, storeVars, mediaVars, toolVars, clock, links, target, runs, pc, runLocals>>

EditSource(s) ==
    /\ pc = "idle"
    /\ source[s] # NoTime
    /\ source[s] # clock
    /\ source' = [source EXCEPT ![s] = clock]
    /\ ghost' = SourceTouched(ghost, s)
    /\ UNCHANGED <<faults, impl, storeVars, mediaVars, toolVars, clock, links, target, runs, pc, runLocals>>

DeleteSource(s) ==
    /\ pc = "idle"
    /\ source[s] # NoTime
    /\ source' = [source EXCEPT ![s] = NoTime]
    /\ ghost' = SourceTouched(ghost, s)
    /\ UNCHANGED <<faults, impl, storeVars, mediaVars, toolVars, clock, links, target, runs, pc, runLocals>>

\* -------------------------------------------------------------- the run
\* fetchSource / the head of delta_sync.js: runtimeStart, then the page stream
StartRun(cfg) ==
    /\ pc = "idle"
    /\ runs < MaxRuns
    /\ runs' = runs + 1
    /\ config' = cfg
    /\ runtimeStart' = RuntimeStart(clock)
    /\ allPages' = GetTasksFromDBA(source)
    /\ pc' = "filter"
    /\ ghost' = [ghost EXCEPT !.rerun = ghost.steady, !.steady = FALSE, !.callFailed = FALSE]
    /\ UNCHANGED <<faults, impl, storeVars, mediaVars, toolVars, clock, source, links, target, eligiblePages, idx, existing,
                   needsSync, newPage, link, err, tally, breaker, orphans>>

Filter ==
    /\ pc = "filter"
    /\ eligiblePages' = IF impl = "index" THEN FilterEligible(allPages, config, links)
                        ELSE IF impl = "mono" THEN MonoEligible(allPages, config)
                        ELSE StaleAdmitted(allPages, config)
    /\ idx' = 1
    /\ pc' = "loop"
    /\ UNCHANGED <<faults, impl, storeVars, mediaVars, toolVars, clock, source, links, target, runs, config, runtimeStart,
                   allPages, existing, needsSync, newPage, link, err, tally, breaker,
                   orphans, ghost>>

ExistingHistory == IF existing = <<>> THEN <<>> ELSE existing[1].history
HasOldTarget == existing # <<>> /\ existing[1].targetId # NoId

\* where a throw inside the loop body lands: sync_if_stale.js has no try/catch
OnThrow == IF impl = "stale" THEN "crashed" ELSE "catch"

Faulted(g, failed) ==
    [g EXCEPT !.callFailed = @ \/ failed, !.attemptFault = @ \/ failed,
              !.outcome = IF failed /\ impl = "stale" THEN "thrown" ELSE @]

\* mutant: the loop ends one record early
HasNextPageButLast == idx < Len(eligiblePages)

\* the iterator of for (const page of eligiblePages) has a page left
HasNextPage == idx <= Len(eligiblePages)

\* for (const page of eligiblePages): load the link and decide
LoopNext ==
    /\ pc = "loop"
    /\ HasNextPage
    /\ existing' = LoadOrNull(links, eligiblePages[idx].id)
    /\ needsSync' = TaskNeedsSync(config.force, existing', eligiblePages[idx].last_edited_time)
    /\ breaker' = IF impl = "mono" THEN [breaker EXCEPT !.processed = @ + 1] ELSE breaker
    /\ newPage' = NoId
    /\ link' = NoLinkObj
    /\ err' = ""
    /\ pc' = "decide"
    /\ ghost' = [ghost EXCEPT !.outcome = "", !.attemptFault = FALSE]
    /\ UNCHANGED <<faults, impl, storeVars, mediaVars, toolVars, clock, source, links, target, runs, config, runtimeStart,
                   allPages, eligiblePages, idx, tally, orphans>>

\* if (!needsSync) -> 'skipped'
SkipNoDrift ==
    /\ pc = "decide"
    /\ ~needsSync
    /\ tally' = [tally EXCEPT !.skipped = @ + 1]
    /\ idx' = idx + 1
    /\ pc' = "loop"
    /\ ghost' = [ghost EXCEPT !.outcome = "skipped"]
    /\ UNCHANGED <<faults, impl, storeVars, mediaVars, toolVars, clock, source, links, target, runs, config, runtimeStart,
                   allPages, eligiblePages, existing, needsSync, newPage, link, err,
                   breaker, orphans>>

\* if (dryRun): sync_task.js returns 'skipped'; delta_sync.js continues uncounted
SkipDryRun ==
    /\ pc = "decide"
    /\ needsSync
    /\ config.dryRun
    /\ tally' = IF impl = "index" THEN [tally EXCEPT !.skipped = @ + 1] ELSE tally
    /\ idx' = idx + 1
    /\ pc' = "loop"
    /\ ghost' = [ghost EXCEPT !.outcome = "skipped"]
    /\ UNCHANGED <<faults, impl, storeVars, mediaVars, toolVars, clock, source, links, target, runs, config, runtimeStart,
                   allPages, eligiblePages, existing, needsSync, newPage, link, err,
                   breaker, orphans>>

\* sync_if_stale.js archives the old target before it transforms
BeginSync ==
    /\ pc = "decide"
    /\ needsSync
    /\ ~config.dryRun
    /\ pc' = IF impl = "stale" /\ HasOldTarget THEN "archive" ELSE "transform"
    /\ UNCHANGED <<faults, impl, storeVars, mediaVars, toolVars, clock, source, links, target, runs, config, runtimeStart,
                   allPages, eligiblePages, idx, existing, needsSync, newPage, link,
                   err, tally, breaker, orphans, ghost>>

SkipPageMsg == "SkipPage: skipped by the transformer"

\* err.message?.startsWith('SkipPage')
IsSkipPage(message) == message = SkipPageMsg

\* the transformer returns a payload, throws, or throws its skip-page signal
TransformOutcomes == {"ok", "fail", "skip"}

\* const payload = await transform(page, taskMap, log)
Transform(outcome) ==
    /\ pc = "transform"
    /\ err' = IF outcome = "ok" THEN err
              ELSE IF outcome = "skip" THEN SkipPageMsg ELSE "transform failed"
    /\ pc' = IF outcome = "ok" THEN "write" ELSE OnThrow
    /\ ghost' = Faulted(ghost, outcome # "ok")
    /\ (outcome # "ok" => faults < MaxFaults)
    /\ faults' = IF outcome = "ok" THEN faults ELSE faults + 1
    /\ UNCHANGED <<impl, storeVars, mediaVars, toolVars, clock, source, links, target, runs, config, runtimeStart,
                   allPages, eligiblePages, idx, existing, needsSync, newPage, link,
                   tally, breaker, orphans>>

WriteOutcomes == {"ok", "create_fail", "append_fail"}

\* newPage = await writeToDBB(payload, TARGET_DB_ID, log): pages.create, then the
\* block tree; a throw after pages.create leaves the page and assigns nothing.
\* sync_if_stale.js calls the two-argument writeToDBB, which only creates the page
WriteToDBB(outcome) ==
    /\ pc = "write"
    /\ impl = "stale" => outcome # "append_fail"
    /\ outcome # "create_fail" => FreshId <= MaxPages
    /\ target' = IF outcome = "create_fail" THEN target
                 ELSE [target EXCEPT ![FreshId] =
                          [state |-> "live", forSource |-> eligiblePages[idx].id]]
    /\ newPage' = IF outcome = "ok" THEN FreshId ELSE newPage
    /\ err' = IF outcome = "create_fail" THEN "create failed"
              ELSE IF outcome = "append_fail" THEN "append failed" ELSE err
    /\ pc' = IF outcome = "ok" THEN "save" ELSE OnThrow
    /\ ghost' = Faulted(ghost, outcome # "ok")
    /\ (outcome # "ok" => faults < MaxFaults)
    /\ faults' = IF outcome = "ok" THEN faults ELSE faults + 1
    /\ UNCHANGED <<impl, storeVars, mediaVars, toolVars, clock, source, links, runs, config, runtimeStart, allPages,
                   eligiblePages, idx, existing, needsSync, link, tally, breaker, orphans>>

\* mutant: the history starts afresh instead of from the stored one
NewHistoryDropsPrior ==
    IF HasOldTarget
    THEN <<[targetId |-> existing[1].targetId, syncedAt |-> existing[1].syncedAt,
            deletedAt |-> NoTime, notes |-> ReplacedNote]>>
    ELSE <<>>

\* mutant: the replaced entry is stamped deleted when it is built
NewHistoryStamped ==
    ExistingHistory \o
    (IF HasOldTarget
     THEN <<[targetId |-> existing[1].targetId, syncedAt |-> existing[1].syncedAt,
             deletedAt |-> clock, notes |-> ReplacedNote]>>
     ELSE <<>>)

\* [...(existing?.history || [])] plus, if (existing?.targetId), the replaced entry
NewHistory ==
    ExistingHistory \o
    (IF HasOldTarget
     THEN <<[targetId |-> existing[1].targetId, syncedAt |-> existing[1].syncedAt,
             deletedAt |-> NoTime, notes |-> ReplacedNote]>>
     ELSE <<>>)

\* mutant: the success link keeps the id of the target it replaces
SuccessLinkOldTarget ==
    [sourceId |-> eligiblePages[idx].id,
     targetId |-> IF existing = <<>> THEN NoId ELSE existing[1].targetId,
     status |-> "success",
     syncedAt |-> IF impl = "stale" THEN clock ELSE runtimeStart, notes |-> "",
     history |-> IF impl = "stale" THEN ExistingHistory ELSE NewHistory]

\* sync_if_stale.js stamps syncedAt with new Date() and saves the history it has
\* already pushed to; the other two stamp runtimeStart and build the history here
SuccessLink ==
    [sourceId |-> eligiblePages[idx].id, targetId |-> newPage, status |-> "success",
     syncedAt |-> IF impl = "stale" THEN clock ELSE runtimeStart, notes |-> "",
     history |-> IF impl = "stale" THEN ExistingHistory ELSE NewHistory]

ArchiveAfterSave == impl # "stale" /\ HasOldTarget

Synced(g, s, pageId) ==
    [g EXCEPT !.chain[s] = @ \o <<pageId>>, !.stale = @ \ {s}, !.retried = @ \ {s},
              !.failedNow = @ \ {s},
              !.outcome = "updated"]

\* save link; sync_task.js returns 'updated' at its end, delta_sync.js counts here
SaveLink ==
    /\ pc = "save"
    /\ link' = SuccessLink
    /\ links' = LinkStoreSave(links, SuccessLink, TRUE)
    /\ tally' = IF impl = "mono" \/ ~ArchiveAfterSave
                THEN [tally EXCEPT !.updated = @ + 1] ELSE tally
    /\ breaker' = IF impl = "mono" THEN [breaker EXCEPT !.inARow = 0] ELSE breaker
    /\ pc' = IF ArchiveAfterSave THEN "archive" ELSE "loop"
    /\ idx' = IF ArchiveAfterSave THEN idx ELSE idx + 1
    /\ ghost' = IF ArchiveAfterSave THEN ghost ELSE Synced(ghost, eligiblePages[idx].id, newPage)
    /\ UNCHANGED <<faults, impl, storeVars, mediaVars, toolVars, clock, source, target, runs, config, runtimeStart, allPages,
                   eligiblePages, existing, needsSync, newPage, err, orphans>>

\* archive prior copy: sync_task.js calls archivePage(existing.targetId) without a
\* logger, delta_sync.js calls archivePageIfExists(existing.targetId)
\* sync_if_stale.js: existing.history.push({.., deletedAt: new Date(), ..})
PushDeleted(l, now) ==
    [l EXCEPT !.history = @ \o <<[targetId |-> l.targetId, syncedAt |-> l.syncedAt,
                                  deletedAt |-> now, notes |-> ReplacedNote]>>]

ArchiveOld(answer) ==
    /\ pc = "archive"
    /\ target' = UpdateArchived(target, existing[1].targetId, answer)
    /\ err' = IF ArchiveThrows(answer, impl # "index") THEN ArchiveMessage(answer) ELSE err
    /\ pc' = IF ArchiveThrows(answer, impl # "index") THEN OnThrow
             ELSE IF impl = "stale" THEN "transform" ELSE "resave"
    /\ existing' = IF impl = "stale" /\ ~ArchiveThrows(answer, TRUE)
                   THEN <<PushDeleted(existing[1], clock)>> ELSE existing
    /\ ghost' = Faulted(ghost, answer = "error")
    /\ (answer = "error" => faults < MaxFaults)
    /\ faults' = IF answer = "error" THEN faults + 1 ELSE faults
    /\ UNCHANGED <<impl, storeVars, mediaVars, toolVars, clock, source, links, runs, config, runtimeStart, allPages,
                   eligiblePages, idx, needsSync, newPage, link, tally,
                   breaker, orphans>>

\* history[history.length - 1].deletedAt = new Date().toISOString()
StampDeleted(history, now) == [history EXCEPT ![Len(history)].deletedAt = now]

\* sync_task.js saves {...existing, targetId: newPage.id, history};
\* delta_sync.js saves the link it built, with the stamped history
ResaveLink ==
    IF impl = "index"
    THEN [existing[1] EXCEPT !.targetId = newPage, !.history = StampDeleted(link.history, clock)]
    ELSE [link EXCEPT !.history = StampDeleted(link.history, clock)]

Resave ==
    /\ pc = "resave"
    /\ link' = ResaveLink
    /\ links' = LinkStoreSave(links, ResaveLink, TRUE)
    /\ tally' = IF impl = "index" THEN [tally EXCEPT !.updated = @ + 1] ELSE tally
    /\ idx' = idx + 1
    /\ pc' = "loop"
    /\ ghost' = Synced(ghost, eligiblePages[idx].id, newPage)
    /\ UNCHANGED <<faults, impl, storeVars, mediaVars, toolVars, clock, source, target, runs, config, runtimeStart, allPages,
                   eligiblePages, existing, needsSync, newPage, err, breaker, orphans>>

\* catch (err): best-effort rollback, if (newPage?.id); its own failure is swallowed
Rollback(answer) ==
    /\ pc = "catch"
    /\ newPage # NoId
    /\ target' = UpdateArchived(target, newPage, answer)
    /\ tally' = IF impl = "mono" THEN [tally EXCEPT !.failed = @ + 1] ELSE tally
    /\ pc' = "savefail"
    /\ ghost' = Faulted(ghost, answer = "error")
    /\ (answer = "error" => faults < MaxFaults)
    /\ faults' = IF answer = "error" THEN faults + 1 ELSE faults
    /\ UNCHANGED <<impl, storeVars, mediaVars, toolVars, clock, source, links, runs, config, runtimeStart, allPages,
                   eligiblePages, idx, existing, needsSync, newPage, link, err, breaker,
                   orphans>>

NoRollback ==
    /\ pc = "catch"
    /\ newPage = NoId
    /\ tally' = IF impl = "mono" THEN [tally EXCEPT !.failed = @ + 1] ELSE tally
    /\ pc' = "savefail"
    /\ UNCHANGED <<faults, impl, storeVars, mediaVars, toolVars, clock, source, links, target, runs, config, runtimeStart,
                   allPages, eligiblePages, idx, existing, needsSync, newPage, link, err,
                   breaker, orphans, ghost>>

FailLink ==
    [sourceId |-> eligiblePages[idx].id, targetId |-> newPage, status |-> "fail",
     syncedAt |-> runtimeStart, notes |-> err, history |-> ExistingHistory]

\* mutant: the failure rate is tested from the first record on
ShouldExitNoGrace(b, t) ==
    \/ b.inARow >= ConsecutiveLimit
    \/ b.total >= TotalLimit
    \/ b.total * 100 > RatePercent * (t.updated + t.skipped + t.failed)

\* delta_sync.js circuit breaker, evaluated with the counters after this failure
ShouldExit(b, t) ==
    \/ b.inARow >= ConsecutiveLimit
    \/ b.total >= TotalLimit
    \/ (~(b.processed < GraceRecords)
        /\ b.total * 100 > RatePercent * (t.updated + t.skipped + t.failed))

BreakerAfterFailure == [breaker EXCEPT !.inARow = @ + 1, !.total = @ + 1]

\* mutant: strict mode rethrows before the failure is recorded
FailSavedUnlessStrict ==
    IF config.strictMode THEN links ELSE LinkStoreSave(links, FailLink, TRUE)

\* await linkStore.save({.. status: 'fail' ..}, LINK_TYPE), ahead of the rethrow
FailSaved == LinkStoreSave(links, FailLink, TRUE)

\* persist the fail link; strict mode rethrows, delta_sync.js may break the loop
SaveFail ==
    /\ pc = "savefail"
    /\ link' = FailLink
    /\ links' = FailSaved
    /\ breaker' = IF impl = "mono" THEN BreakerAfterFailure ELSE breaker
    /\ tally' = IF impl = "index" /\ ~config.strictMode
                THEN [tally EXCEPT !.failed = @ + 1] ELSE tally
    /\ pc' = IF config.strictMode THEN "crashed" ELSE "loop"
    /\ idx' = IF config.strictMode THEN idx
              ELSE IF impl = "mono" /\ ShouldExit(BreakerAfterFailure, tally)
                   THEN Len(eligiblePages) + 1
                   ELSE idx + 1
    /\ ghost' = [ghost EXCEPT !.outcome = IF config.strictMode THEN "thrown" ELSE "failed",
                              !.failedNow = @ \cup {eligiblePages[idx].id},
                              !.broken = @ \cup {eligiblePages[idx].id}]
    /\ UNCHANGED <<faults, impl, storeVars, mediaVars, toolVars, clock, source, target, runs, config, runtimeStart, allPages,
                   eligiblePages, existing, needsSync, newPage, err, orphans>>

\* mutant: every success link is taken for an orphan
RECURSIVE OrphansFromAll(_, _, _)
OrphansFromAll(all, present, s) ==
    IF s > NumSources THEN <<>>
    ELSE (IF \E l \in all : l.sourceId = s /\ l.status = "success"
          THEN <<CHOOSE l \in all : l.sourceId = s>> ELSE <<>>)
         \o OrphansFromAll(all, present, s + 1)

\* orphans: success links whose sourceId is not among the fetched pages
RECURSIVE OrphansFrom(_, _, _)
OrphansFrom(all, present, s) ==
    IF s > NumSources THEN <<>>
    ELSE (IF \E l \in all : l.sourceId = s /\ l.status = "success" /\ s \notin present
          THEN <<CHOOSE l \in all : l.sourceId = s>> ELSE <<>>)
         \o OrphansFrom(all, present, s + 1)

LoopEnd ==
    /\ pc = "loop"
    /\ ~HasNextPage
    /\ orphans' = IF impl = "stale" THEN <<>>
                  ELSE OrphansFrom(LoadAll(links), PageIdsOf(allPages), 1)
    /\ pc' = "sweep"
    /\ UNCHANGED <<faults, impl, storeVars, mediaVars, toolVars, clock, source, links, target, runs, config, runtimeStart,
                   allPages, eligiblePages, idx, existing, needsSync, newPage, link,
                   err, tally, breaker, ghost>>

\* cleanup_orphans.js: {...link, status: 'archived', notes}; delta_sync.js also
\* appends a history entry for the archived target
ArchivedLink(l, now) ==
    [l EXCEPT !.status = "archived", !.notes = OrphanNote,
              !.history = IF impl = "mono"
                          THEN @ \o <<[targetId |-> l.targetId, syncedAt |-> l.syncedAt,
                                       deletedAt |-> now, notes |-> OrphanNote]>>
                          ELSE @]

SweepOrphan(answer) ==
    /\ pc = "sweep"
    /\ orphans # <<>>
    /\ target' = UpdateArchived(target, Head(orphans).targetId, answer)
    /\ links' = IF ArchiveThrows(answer, TRUE) THEN links
                ELSE LinkStoreSave(links, ArchivedLink(Head(orphans), clock), TRUE)
    /\ orphans' = Tail(orphans)
    /\ ghost' = [ghost EXCEPT
                   !.callFailed = @ \/ answer = "error",
                   !.swept[Head(orphans).targetId] = IF answer = "error" THEN @ ELSE @ + 1,
                   !.broken = IF answer = "error" THEN @ ELSE @ \cup {Head(orphans).sourceId}]
    /\ (answer = "error" => faults < MaxFaults)
    /\ faults' = IF answer = "error" THEN faults + 1 ELSE faults
    /\ UNCHANGED <<impl, storeVars, mediaVars, toolVars, clock, source, runs, pc, config, runtimeStart, allPages,
                   eligiblePages, idx, existing, needsSync, newPage, link, err, tally,
                   breaker>>

\* the final summary is logged
SweepDone ==
    /\ pc = "sweep"
    /\ orphans = <<>>
    /\ pc' = "done"
    /\ UNCHANGED <<faults, impl, storeVars, mediaVars, toolVars, clock, source, links, target, runs, runLocals, ghost>>

\* the run synced every fetched record: none failed, none was left out
AllSynced == tally.failed = 0 /\ ~config.dryRun /\ config.onlyId = NoId

\* the run went over every fetched record with force off
WholeRun == pc = "done" /\ ~config.force /\ ~config.dryRun /\ config.onlyId = NoId

\* process.exit(1) in the catch of main; index.js sets process.exitCode = 1 after
\* the final log if (failed && config.strictMode)
ExitCode ==
    IF pc = "crashed" THEN 1
    ELSE IF impl = "index" /\ tally.failed > 0 /\ config.strictMode THEN 1
    ELSE 0

\* the process ends, normally or by process.exit(1)
Exit ==
    /\ pc \in {"done", "crashed"}
    /\ pc' = "idle"
    /\ config' = NoConfig
    /\ runtimeStart' = NoTime
    /\ allPages' = <<>>
    /\ eligiblePages' = <<>>
    /\ idx' = 0
    /\ existing' = <<>>
    /\ needsSync' = FALSE
    /\ newPage' = NoId
    /\ link' = NoLinkObj
    /\ err' = ""
    /\ tally' = ZeroTally
    /\ breaker' = ZeroBreaker
    /\ orphans' = <<>>
    /\ ghost' = [ghost EXCEPT
                   !.steady = pc = "done" /\ AllSynced,
                   !.prevStart = IF pc = "done" /\ AllSynced THEN runtimeStart ELSE NoTime,
                   !.rerun = FALSE,
                   !.callFailed = FALSE,
                   !.attemptFault = FALSE,
                   !.outcome = "",
                   !.stale = (IF ghost.callFailed THEN {} ELSE @) \cup ghost.failedNow,
                   !.retried = IF ghost.callFailed THEN {}
                               ELSE IF WholeRun THEN ghost.stale ELSE @,
                   !.failedNow = {}]
    /\ UNCHANGED <<faults, impl, storeVars, mediaVars, toolVars, clock, source, links, target, runs>>

Next ==
    \/ Tick
    \/ \E s \in Sources : CreateSource(s) \/ EditSource(s) \/ DeleteSource(s)
    \/ \E cfg \in Configs : StartRun(cfg)
    \/ Filter
    \/ LoopNext
    \/ SkipNoDrift
    \/ SkipDryRun
    \/ BeginSync
    \/ \E outcome \in TransformOutcomes : Transform(outcome)
    \/ \E outcome \in WriteOutcomes : WriteToDBB(outcome)
    \/ SaveLink
    \/ \E answer \in Answers : ArchiveOld(answer)
    \/ Resave
    \/ \E answer \in Answers : Rollback(answer)
    \/ NoRollback
    \/ SaveFail
    \/ LoopEnd
    \/ \E answer \in Answers : SweepOrphan(answer)
    \/ SweepDone
    \/ Exit

Spec == Init /\ [][Next]_vars

\* --------------------------------------------- the delta_sync.js loop at length
\* One non-strict run of delta_sync.js over a stream of MaxRecords eligible
\* records, one step per loop iteration; only the counters of the loop move.
BreakerInit ==
    /\ impl = "mono"
    /\ clock = StartClock
    /\ source = [s \in Sources |-> NoTime]
    /\ links = <<>>
    /\ target = [p \in PageIds |-> [state |-> "none", forSource |-> NoId]]
    /\ runs = 1
    /\ pc = "loop"
    /\ config = NoConfig
    /\ runtimeStart = RuntimeStart(StartClock)
    /\ allPages = <<>>
    /\ eligiblePages = <<>>
    /\ idx = 1
    /\ existing = <<>>
    /\ needsSync = FALSE
    /\ newPage = NoId
    /\ link = NoLinkObj
    /\ err = ""
    /\ tally = ZeroTally
    /\ breaker = ZeroBreaker
    /\ orphans = <<>>
    /\ faults = 0
    /\ ghost = GhostInit
    /\ disk = NoDisk
    /\ result = NoResult
    /\ MediaIdle
    /\ ToolsIdle

loopFrame == <<impl, storeVars, mediaVars, toolVars, clock, source, links, target, runs, config, runtimeStart, allPages,
               eligiblePages, existing, needsSync, newPage, link, err, orphans, faults,
               ghost>>

\* processed++ at the head of the loop body
Processed(b) == [b EXCEPT !.processed = @ + 1]

\* if (!needsSync) { skipped++; continue }
IterSkipped ==
    /\ pc = "loop" /\ idx <= MaxRecords
    /\ tally.skipped < MaxSkipped
    /\ breaker' = Processed(breaker)
    /\ tally' = [tally EXCEPT !.skipped = @ + 1]
    /\ idx' = idx + 1
    /\ UNCHANGED <<pc, loopFrame>>

\* the save succeeds: updated++; fatalErrorsInARow = 0
IterUpdated ==
    /\ pc = "loop" /\ idx <= MaxRecords
    /\ breaker' = [Processed(breaker) EXCEPT !.inARow = 0]
    /\ tally' = [tally EXCEPT !.updated = @ + 1]
    /\ idx' = idx + 1
    /\ UNCHANGED <<pc, loopFrame>>

\* catch (err): failed++, both breaker counters++, shouldExit, save, break or continue;
\* afterSave: the throw came from the archive of the old target, after updated++
IterFailed(afterSave) ==
    /\ pc = "loop" /\ idx <= MaxRecords
    /\ LET t == [tally EXCEPT !.failed = @ + 1,
                              !.updated = IF afterSave THEN @ + 1 ELSE @]
           b == [Processed(breaker) EXCEPT
                    !.inARow = (IF afterSave THEN 0 ELSE @) + 1, !.total = @ + 1]
       IN /\ tally' = t
          /\ breaker' = b
          /\ pc' = IF ShouldExit(b, t) THEN "sweep" ELSE "loop"
    /\ idx' = idx + 1
    /\ UNCHANGED loopFrame

\* the loop runs out of records
IterEnd ==
    /\ pc = "loop" /\ idx > MaxRecords
    /\ pc' = "sweep"
    /\ UNCHANGED <<idx, tally, breaker, loopFrame>>

BreakerNext ==
    \/ IterSkipped
    \/ IterUpdated
    \/ \E afterSave \in BOOLEAN : IterFailed(afterSave)
    \/ IterEnd

BreakerSpec == BreakerInit /\ [][BreakerNext]_vars

\* ------------------------------------------------ the link store on its own
\* Calls of LinkStore on the links directory, MaxStoreOps of them in any order,
\* by callers that pass plain objects (with or without history and notes) and by
\* the earlier version of the store, whose files carry no merged history.
PageNames == {"Social Media", "Newsletter"}

ReplacedEntry ==
    [targetId |-> 1, syncedAt |-> Epoch, deletedAt |-> NoTime, notes |-> ReplacedNote]

HistoryArgs == {"undefined", "empty", "one"}

\* the object a caller hands to save: a success link as syncTask builds it (no
\* notes), a fail or archived link with notes; history only when the caller has one
LinkObject(sourceId, status, sourcePageName, hist) ==
    [f \in {"sourceId", "targetId", "status", "syncedAt", "type", "sourcePageName"}
           \cup (IF status = "success" THEN {} ELSE {"notes"})
           \cup (IF hist = "undefined" THEN {} ELSE {"history"}) |->
        CASE f = "sourceId" -> sourceId
          [] f = "targetId" -> (IF status = "fail" THEN NoId ELSE sourceId)
          [] f = "status" -> status
          [] f = "syncedAt" -> Epoch
          [] f = "type" -> "task"
          [] f = "sourcePageName" -> sourcePageName
          [] f = "notes" -> (IF status = "fail" THEN "write failed" ELSE OrphanNote)
          [] f = "history" -> (IF hist = "one" THEN <<ReplacedEntry>> ELSE <<>>)]

LinkObjects ==
    {LinkObject(s, st, nm, h) :
        s \in Sources, st \in {"success", "fail", "archived"}, nm \in PageNames,
        h \in HistoryArgs}

StoreInit ==
    /\ impl = "index"
    /\ clock = StartClock
    /\ source = [s \in Sources |-> NoTime]
    /\ links = <<>>
    /\ target = [p \in PageIds |-> [state |-> "none", forSource |-> NoId]]
    /\ runs = 0
    /\ pc = "idle"
    /\ config = NoConfig
    /\ runtimeStart = NoTime
    /\ allPages = <<>>
    /\ eligiblePages = <<>>
    /\ idx = 0
    /\ existing = <<>>
    /\ needsSync = FALSE
    /\ newPage = NoId
    /\ link = NoLinkObj
    /\ err = ""
    /\ tally = ZeroTally
    /\ breaker = ZeroBreaker
    /\ orphans = <<>>
    /\ faults = 0
    /\ ghost = GhostInit
    /\ disk = NoDisk
    /\ result = NoResult
    /\ MediaIdle
    /\ ToolsIdle

storeFrame == <<impl, clock, source, links, target, runs, pc, config, runtimeStart,
                allPages, eligiblePages, idx, existing, needsSync, newPage, link, err,
                tally, breaker, orphans, faults, ghost, mediaVars, toolVars>>

Called(op, type, id, name, arg) ==
    [NoResult EXCEPT !.op = op, !.n = result.n + 1, !.type = type, !.id = id,
                     !.name = name, !.arg = arg]

\* await linkStore.save(l, type)
StoreSave(l, type) ==
    /\ result.n < MaxStoreOps
    /\ disk' = [disk EXCEPT ![type] = LinkStoreSave(disk[type], l, Has(l, "history"))]
    /\ result' = Called("save", type, l.sourceId, "", <<l>>)
    /\ UNCHANGED storeFrame

\* a file written by the earlier version of the store
StoreLegacySave(l, type) ==
    /\ result.n < MaxStoreOps
    /\ disk' = [disk EXCEPT ![type] = LegacySave(disk[type], l)]
    /\ result' = Called("legacy", type, l.sourceId, "", <<l>>)
    /\ UNCHANGED storeFrame

\* a file of the directory is left with text that is not JSON
Corrupt(sourceId, type) ==
    /\ result.n < MaxStoreOps
    /\ sourceId \in DOMAIN disk[type]
    /\ disk' = [disk EXCEPT ![type][sourceId] = Malformed]
    /\ result' = Called("corrupt", type, sourceId, "", <<>>)
    /\ UNCHANGED storeFrame

\* await linkStore.load(sourceId, type)
StoreLoad(sourceId, type) ==
    /\ result.n < MaxStoreOps
    /\ result' = IF LoadThrows(disk[type], sourceId)
                 THEN [Called("load", type, sourceId, "", <<>>) EXCEPT !.threw = TRUE]
                 ELSE [Called("load", type, sourceId, "", <<>>) EXCEPT
                          !.link = <<LinkStoreLoad(disk[type], sourceId)>>]
    /\ UNCHANGED <<disk, storeFrame>>

\* await linkStore.findBySourcePageName(name, type)
StoreFind(name, type) ==
    /\ result.n < MaxStoreOps
    /\ \E found \in {<<l>> : l \in FindBySourcePageName(disk[type], name)}
                    \cup (IF FindBySourcePageName(disk[type], name) = {} THEN {<<>>} ELSE {}) :
          result' = [Called("find", type, NoId, name, <<>>) EXCEPT !.link = found]
    /\ UNCHANGED <<disk, storeFrame>>

\* filterEligible and syncTask on a page of the source with last_edited_time
\* lastEdited, no force: existing = load(..).catch(() => null), then needsSync
StoreDecide(sourceId, type, lastEdited) ==
    /\ result.n < MaxStoreOps
    /\ LET existingLink == LoadOrNull(disk[type], sourceId)
       IN result' = [Called("decide", type, sourceId, "", <<lastEdited>>) EXCEPT
                        !.link = existingLink,
                        !.needsSync = <<FilterNeedsSync(FALSE, existingLink, lastEdited),
                                        TaskNeedsSync(FALSE, existingLink, lastEdited)>>]
    /\ UNCHANGED <<disk, storeFrame>>

StoreNext ==
    \/ \E l \in LinkObjects, type \in Types : StoreSave(l, type)
    \/ \E l \in LinkObjects, type \in Types : StoreLegacySave(l, type)
    \/ \E sourceId \in Sources, type \in Types : Corrupt(sourceId, type)
    \/ \E sourceId \in Sources, type \in Types : StoreLoad(sourceId, type)
    \/ \E name \in PageNames, type \in Types : StoreFind(name, type)
    \/ \E sourceId \in Sources, type \in Types, lastEdited \in {Epoch, StartClock} :
          StoreDecide(sourceId, type, lastEdited)

StoreSpec == StoreInit /\ [][StoreNext]_vars

\* --------------------------------------------------- the media migrator
\* One MediaMigrator at a time on the staging directory: processFiles calls one
\* after the other, flush, and a new instance with init() after a restart.
FileObjs == Urls \cup {NoUrl}

FileLists == UNION {[1..len -> FileObjs] : len \in 1..MaxFiles}

MediaInit ==
    /\ impl = "index"
    /\ clock = StartClock
    /\ source = [s \in Sources |-> NoTime]
    /\ links = <<>>
    /\ target = [p \in PageIds |-> [state |-> "none", forSource |-> NoId]]
    /\ runs = 0
    /\ pc = "idle"
    /\ config = NoConfig
    /\ runtimeStart = NoTime
    /\ allPages = <<>>
    /\ eligiblePages = <<>>
    /\ idx = 0
    /\ existing = <<>>
    /\ needsSync = FALSE
    /\ newPage = NoId
    /\ link = NoLinkObj
    /\ err = ""
    /\ tally = ZeroTally
    /\ breaker = ZeroBreaker
    /\ orphans = <<>>
    /\ faults = 0
    /\ ghost = GhostInit
    /\ disk = NoDisk
    /\ result = NoResult
    /\ sizes \in [Shas -> {SmallSize, BigSize}]
    /\ manifestFile = <<>>
    /\ mig = NewMigrator
    /\ call = NoCall
    /\ up = NoUpload
    /\ net = NoNet
    /\ ToolsIdle
    /\ wait = NoWait

mediaFrame == <<impl, clock, source, links, target, runs, pc, config, runtimeStart,
                allPages, eligiblePages, idx, existing, needsSync, newPage, link, err,
                tally, breaker, orphans, faults, ghost, storeVars, toolVars, sizes, wait>>

CurrentUrl == call.files[call.k]

\* a request leaves the process: its kind and whether it goes through the limiter
\* of the proxy-wrapped client (this.notion.request) or straight to fetch
Sent(n, kind, via, key) == [n EXCEPT !.req = [kind |-> kind, via |-> via, key |-> key]]

\* a step that sends nothing
Quiet(n) == [n EXCEPT !.req = NoReq]

\* mutant: the catch of processFiles gives up on the batch
OnFileErrorRethrow(c) == [c EXCEPT !.pc = "idle", !.threw = TRUE]

\* processFiles: catch (err) { logger.error(..) }, then the next file
OnFileError(c) ==
    [c EXCEPT !.pc = "next", !.k = @ + 1, !.done = Append(@, "failed"),
              !.localInfo = NoInfo]

\* processFiles: results.push({type: 'file_upload', file_upload: {id}, name}), next file
Pushed(c, uploadInfo) ==
    [c EXCEPT !.pc = "next", !.k = @ + 1, !.done = Append(@, "ref"),
              !.results = Append(@, [id |-> uploadInfo.id, name |-> c.localInfo.path]),
              !.localInfo = NoInfo]

\* an upload attempt of the current file ends in a throw: parts still in flight
\* stay in flight, nothing is cached
UploadAborted(n, u) == [n EXCEPT !.stray = @ + Cardinality(u.inFlight)]

\* await mediaMigrator.processFiles(pageId, filesArray)
ProcessFiles(filesArray) ==
    /\ call.pc = "idle" /\ call.n < MaxCalls
    /\ call' = [NoCall EXCEPT !.pc = "next", !.n = call.n + 1, !.files = filesArray, !.k = 1]
    /\ up' = NoUpload
    /\ net' = Quiet(net)
    /\ UNCHANGED <<manifestFile, mig, mediaFrame>>

\* return results
ProcessFilesReturn ==
    /\ call.pc = "next" /\ call.k > Len(call.files)
    /\ call' = [call EXCEPT !.pc = "idle"]
    /\ net' = Quiet(net)
    /\ UNCHANGED <<manifestFile, mig, up, mediaFrame>>

\* _downloadFile: if (!sourceUrl) { warn; return null } and processFiles' continue
DownloadSkip ==
    /\ call.pc = "next" /\ call.k <= Len(call.files)
    /\ CurrentUrl = NoUrl
    /\ call' = [call EXCEPT !.k = @ + 1, !.done = Append(@, "skipped")]
    /\ net' = Quiet(net)
    /\ UNCHANGED <<manifestFile, mig, up, mediaFrame>>

\* mutant: the download cache is never consulted
DownloadCachedNever(m, url) == FALSE

\* _downloadFile: if (this.downloadCache.has(sourceUrl))
DownloadCached(m, url) == MapHas(m.downloadCache, url)

\* _downloadFile on a cache hit: return this.downloadCache.get(sourceUrl)
DownloadFromCache ==
    /\ call.pc = "next" /\ call.k <= Len(call.files)
    /\ CurrentUrl # NoUrl
    /\ DownloadCached(mig, CurrentUrl)
    /\ call' = [call EXCEPT !.pc = "upload", !.localInfo = mig.downloadCache[CurrentUrl]]
    /\ net' = Quiet(net)
    /\ UNCHANGED <<manifestFile, mig, up, mediaFrame>>

\* _downloadFile on a miss: fetch(sourceUrl); a network error or !res.ok throws;
\* else the bytes are written, hashed and recorded in cache and manifest
Download(ok) ==
    /\ call.pc = "next" /\ call.k <= Len(call.files)
    /\ CurrentUrl # NoUrl
    /\ ~DownloadCached(mig, CurrentUrl)
    /\ net' = Sent([net EXCEPT !.fetched = IF ok THEN @ \cup {CurrentUrl} ELSE @],
                    "download", "fetch", CurrentUrl)
    /\ IF ok
       THEN LET info == [path |-> CurrentUrl, size |-> sizes[Sha256(CurrentUrl)],
                         sha256 |-> Sha256(CurrentUrl)]
            IN /\ mig' = [mig EXCEPT
                             !.downloadCache = Put(@, CurrentUrl, info),
                             !.manifest.downloads = Put(@, CurrentUrl, info)]
               /\ call' = [call EXCEPT !.pc = "upload", !.localInfo = info]
       ELSE /\ call' = OnFileError(call)
            /\ mig' = mig
    /\ UNCHANGED <<manifestFile, up, mediaFrame>>

\* mutant: the upload cache is never consulted
UploadCachedNever(m, sha256) == FALSE

\* _uploadFile: if (this.uploadCache.has(sha256))
UploadCached(m, sha256) == MapHas(m.uploadCache, sha256)

\* _uploadFile on a cache hit: return this.uploadCache.get(sha256)
UploadFromCache ==
    /\ call.pc = "upload"
    /\ UploadCached(mig, call.localInfo.sha256)
    /\ LET uploadInfo == mig.uploadCache[call.localInfo.sha256]
       IN /\ call' = Pushed(call, uploadInfo)
          /\ net' = Quiet([net EXCEPT !.refs[call.localInfo.sha256] = @ \cup {uploadInfo.id}])
    /\ UNCHANGED <<manifestFile, mig, up, mediaFrame>>

\* mutant: the number of whole chunks
TotalPartsFloor(size) == size \div ChunkSize

\* Math.ceil(size / partSize)
TotalParts(size) == (size + ChunkSize - 1) \div ChunkSize

\* _directUpload / _multiPartUpload, first request: notion.request POST file_uploads
\* ({} or {mode: 'multi_part', number_of_parts, filename}); create.id on success
CreateUpload(ok) ==
    /\ call.pc = "upload"
    /\ ~UploadCached(mig, call.localInfo.sha256)
    /\ LET size == call.localInfo.size
           sent == Sent(net, "create", "limiter", call.localInfo.sha256)
       IN IF ok
          THEN /\ up' = [NoUpload EXCEPT
                            !.id = net.nextId,
                            !.declared = IF size <= ChunkSize THEN 0 ELSE TotalParts(size),
                            !.sent = [part \in 1..(IF size <= ChunkSize THEN 0
                                                   ELSE TotalParts(size)) |-> 0]]
               /\ net' = [sent EXCEPT !.nextId = @ + 1]
               /\ call' = [call EXCEPT !.pc = IF size <= ChunkSize THEN "send" ELSE "batch"]
          ELSE /\ up' = NoUpload
               /\ net' = UploadAborted(sent, NoUpload)
               /\ call' = OnFileError(call)
    /\ UNCHANGED <<manifestFile, mig, mediaFrame>>

\* _directUpload: fetch(.../file_uploads/{id}/send); only a network error throws,
\* the status of the response is not looked at
SendFile(answer) ==
    /\ call.pc = "send"
    /\ IF answer = "network_error"
       THEN /\ net' = UploadAborted(Sent(net, "send", "fetch", call.localInfo.sha256), up)
            /\ call' = OnFileError(call)
       ELSE /\ net' = Sent(net, "send", "fetch", call.localInfo.sha256)
            /\ call' = [call EXCEPT !.pc = "poll"]
    /\ up' = up
    /\ UNCHANGED <<manifestFile, mig, mediaFrame>>

\* mutant: every remaining part goes out at once
BatchAllRemaining(i, totalParts) == {part \in 1..totalParts : i < part}

\* partNumbers.slice(i, i + this.maxParallel)
Batch(i, totalParts) == {part \in 1..totalParts : i < part /\ part <= i + MaxParallel}

\* _multiPartUpload: Promise.all(batch.map(..)) starts the fetch of every part of
\* the batch before it awaits any
StartBatch ==
    /\ call.pc = "batch"
    /\ LET batch == Batch(up.i, up.declared)
       IN /\ up' = [up EXCEPT !.inFlight = batch,
                              !.sent = [part \in DOMAIN @ |->
                                           IF part \in batch THEN @[part] + 1 ELSE @[part]]]
          /\ net' = Sent(net, "part", "fetch", call.localInfo.sha256)
          /\ call' = [call EXCEPT !.pc = "parts"]
    /\ UNCHANGED <<manifestFile, mig, mediaFrame>>

\* mutant: the status of the response is not looked at
PartRejectsNever(ok) == FALSE

\* the async function of a part: if (!res.ok) throw new Error(..); a network error
\* makes fetch itself throw
PartRejects(ok) == ~ok

\* the response of one part: a rejection rejects Promise.all at once, with the
\* other parts of the batch still in flight; when the last part of the batch has
\* resolved the loop goes on. refused: the parts that got a failure for an answer
PartDone(part, ok) ==
    /\ call.pc = "parts"
    /\ part \in up.inFlight
    /\ IF ~PartRejects(ok)
       THEN LET left == up.inFlight \ {part}
                i == IF left = {} THEN up.i + MaxParallel ELSE up.i
            IN /\ up' = [up EXCEPT !.inFlight = left, !.i = i, !.acked = @ \cup {part},
                                   !.refused = IF ok THEN @ ELSE @ \cup {part}]
               /\ call' = [call EXCEPT !.pc = IF left # {} THEN "parts"
                                              ELSE IF i < up.declared THEN "batch"
                                              ELSE "complete"]
               /\ net' = Quiet(net)
       ELSE /\ net' = Quiet(UploadAborted(net, [up EXCEPT !.inFlight = @ \ {part}]))
            /\ up' = [up EXCEPT !.inFlight = {}, !.refused = @ \cup {part}]
            /\ call' = OnFileError(call)
    /\ UNCHANGED <<manifestFile, mig, mediaFrame>>

\* a part of an abandoned attempt gets its response
StrayDone ==
    /\ net.stray > 0
    /\ net' = Quiet([net EXCEPT !.stray = @ - 1])
    /\ UNCHANGED <<manifestFile, mig, call, up, mediaFrame>>

\* _multiPartUpload: notion.request POST file_uploads/{id}/complete
CompleteUpload(ok) ==
    /\ call.pc = "complete"
    /\ IF ok
       THEN /\ net' = Sent(net, "complete", "limiter", call.localInfo.sha256)
            /\ call' = [call EXCEPT !.pc = "poll"]
       ELSE /\ net' = UploadAborted(Sent(net, "complete", "limiter", call.localInfo.sha256), up)
            /\ call' = OnFileError(call)
    /\ up' = [up EXCEPT !.completes = @ + 1]
    /\ UNCHANGED <<manifestFile, mig, mediaFrame>>

StatusAnswers == {"pending", "uploaded", "expired", "failed", "error"}

\* mutant: the loop has no ceiling
WaitStepForever(attempt, answer) ==
    IF answer = "uploaded" THEN "return"
    ELSE IF answer \in {"expired", "failed", "error"} THEN "throw"
    ELSE "again"

\* _waitUntilUploaded, one turn of the loop on the answer of the status request:
\* return on 'uploaded', throw on 'expired' or 'failed' (or when the request itself
\* throws), throw after the loop when attempt was maxAttempts
WaitStep(attempt, answer) ==
    IF answer = "uploaded" THEN "return"
    ELSE IF answer \in {"expired", "failed", "error"} THEN "throw"
    ELSE IF attempt >= MaxAttempts THEN "throw"
    ELSE "again"

\* mutant: the call returns whatever the last answer was
WaitUntilUploadedAlways(lastAnswer) == "return"

\* _waitUntilUploaded as a whole, by the answer of its last status request: the
\* loop ends on the first answer that is not pending, or on the pending answer of
\* turn maxAttempts
WaitUntilUploaded(lastAnswer) == WaitStep(MaxAttempts, lastAnswer)

\* _uploadFile after the upload returned: uploadCache.set, manifest.uploads[sha256]
Uploaded(m, sha256, uploadResult) ==
    [m EXCEPT !.uploadCache = Put(@, sha256, uploadResult),
              !.manifest.uploads = Put(@, sha256, uploadResult)]

\* await this._waitUntilUploaded(uploadId), then the rest of _directUpload /
\* _multiPartUpload, _uploadFile and the push of processFiles
PollStatus(lastAnswer) ==
    /\ call.pc = "poll"
    /\ LET sha256 == call.localInfo.sha256
           uploadResult == [id |-> up.id, size |-> call.localInfo.size]
           polled == Sent(net, "status", "limiter", sha256)
       IN IF WaitUntilUploaded(lastAnswer) = "return"
          THEN /\ mig' = Uploaded(mig, sha256, uploadResult)
               /\ call' = Pushed(call, uploadResult)
               /\ net' = [polled EXCEPT !.refs[sha256] = @ \cup {up.id},
                                        !.uploaded = @ \cup {sha256}]
          ELSE /\ mig' = mig
               /\ call' = OnFileError(call)
               /\ net' = UploadAborted(polled, up)
    /\ up' = [up EXCEPT !.status = IF WaitUntilUploaded(lastAnswer) = "return"
                                  THEN lastAnswer ELSE ""]
    /\ UNCHANGED <<manifestFile, mediaFrame>>

\* await mediaMigrator.flush()
Flush ==
    /\ call.pc = "idle"
    /\ manifestFile' = Flushed(mig)
    /\ net' = Quiet(net)
    /\ UNCHANGED <<mig, call, up, mediaFrame>>

\* the process ends and a later one builds a MediaMigrator on the same staging
\* directory: new MediaMigrator(..); await init()
Restart ==
    /\ call.pc = "idle" /\ net.restarts < MaxRestarts
    /\ mig' = MigratorInit(manifestFile)
    /\ net' = Quiet([net EXCEPT !.restarts = @ + 1, !.fetched = {}, !.uploaded = {},
                                 !.refs = [h \in Shas |-> {}]])
    /\ UNCHANGED <<manifestFile, call, up, mediaFrame>>

MediaNext ==
    \/ \E filesArray \in FileLists : ProcessFiles(filesArray)
    \/ ProcessFilesReturn
    \/ DownloadSkip
    \/ DownloadFromCache
    \/ \E ok \in BOOLEAN : Download(ok)
    \/ UploadFromCache
    \/ \E ok \in BOOLEAN : CreateUpload(ok)
    \/ \E answer \in {"ok", "http_error", "network_error"} : SendFile(answer)
    \/ StartBatch
    \/ \E part \in 1..(MaxParallel + 1), ok \in BOOLEAN : PartDone(part, ok)
    \/ StrayDone
    \/ \E ok \in BOOLEAN : CompleteUpload(ok)
    \/ \E answer \in StatusAnswers : PollStatus(answer)
    \/ Flush
    \/ Restart

MediaSpec == MediaInit /\ [][MediaNext]_vars

\* ------------------------------------------------- _waitUntilUploaded at length
\* One call of _waitUntilUploaded(uploadId), one step per turn of its loop, against
\* any sequence of answers to the status request.
PollInit ==
    /\ impl = "index"
    /\ clock = StartClock
    /\ source = [s \in Sources |-> NoTime]
    /\ links = <<>>
    /\ target = [p \in PageIds |-> [state |-> "none", forSource |-> NoId]]
    /\ runs = 0
    /\ pc = "idle"
    /\ config = NoConfig
    /\ runtimeStart = NoTime
    /\ allPages = <<>>
    /\ eligiblePages = <<>>
    /\ idx = 0
    /\ existing = <<>>
    /\ needsSync = FALSE
    /\ newPage = NoId
    /\ link = NoLinkObj
    /\ err = ""
    /\ tally = ZeroTally
    /\ breaker = ZeroBreaker
    /\ orphans = <<>>
    /\ faults = 0
    /\ ghost = GhostInit
    /\ disk = NoDisk
    /\ result = NoResult
    /\ sizes = [h \in Shas |-> SmallSize]
    /\ manifestFile = <<>>
    /\ mig = NewMigrator
    /\ call = NoCall
    /\ up = NoUpload
    /\ net = NoNet
    /\ ToolsIdle
    /\ \E uploadId \in 1..(MaxCalls * MaxFiles) :
          wait = [NoWait EXCEPT !.pc = "polling", !.uploadId = uploadId, !.attempt = 1]

pollFrame == <<impl, clock, source, links, target, runs, pc, config, runtimeStart,
               allPages, eligiblePages, idx, existing, needsSync, newPage, link, err,
               tally, breaker, orphans, faults, ghost, storeVars, toolVars, sizes, manifestFile,
               mig, call, up, net>>

\* one turn: notion.request GET file_uploads/{uploadId}, then return, throw or,
\* after the delay, attempt++
StatusRequest(answer) ==
    /\ wait.pc = "polling"
    /\ LET step == WaitStep(wait.attempt, answer)
       IN wait' = [wait EXCEPT
                      !.requests = @ + 1,
                      !.status = answer,
                      !.pc = IF step = "return" THEN "returned"
                             ELSE IF step = "throw" THEN "threw"
                             ELSE "polling",
                      !.attempt = IF step = "again" THEN @ + 1 ELSE @]
    /\ UNCHANGED pollFrame

PollNext == \E answer \in StatusAnswers : StatusRequest(answer)

PollSpec == PollInit /\ [][PollNext]_vars

\* --------------------------------------------- transformMediaBlocks on a tree
\* A block is [type, has_children, children, content]: content stands for
\* block[block.type], [type, url, id] with url the external.url or file.url of an
\* external or file object and id the file_upload.id of a file_upload object.
\* fetchBlockTree attaches children exactly to the blocks with has_children.
MediaKinds == {"image", "file", "pdf", "video"}
DataUri == "data:image/png;base64"
BlockUrls == {NoUrl, DataUri, "u1", "u3"}

FileObjects ==
    [type : {"external", "file"}, url : BlockUrls, id : {NoId}]
        \cup {[type |-> "file_upload", url |-> NoUrl, id |-> 9]}

Text == [type |-> "rich_text", url |-> NoUrl, id |-> NoId]

LeafBlocks ==
    [type : MediaKinds, has_children : {FALSE}, children : {<<>>}, content : FileObjects]
        \cup {[type |-> "paragraph", has_children |-> FALSE, children |-> <<>>,
               content |-> Text]}

SeqsUpTo(S, n) == UNION {[1..k -> S] : k \in 0..n}

ParentBlocks ==
    [type : {"toggle"}, has_children : {TRUE}, children : SeqsUpTo(LeafBlocks, MaxChildren),
     content : {Text}]

BlockTrees == SeqsUpTo(LeafBlocks \cup ParentBlocks, MaxBlocks)

\* the id of the upload that holds a content
UploadIdOf(sha) == IF sha = "a" THEN 1 ELSE 2

\* processFiles(pageId, [fileObj]): one reference, or none when the download or
\* the upload threw and the catch logged it
ProcessFile(fileObj, uploadable) ==
    IF fileObj.url \in uploadable
    THEN <<[type |-> "file_upload", file_upload |-> [id |-> UploadIdOf(Sha256(fileObj.url))]]>>
    ELSE <<>>

\* the three branches: image, file, and pdf or video, each with an external or a
\* file object
MediaBranch(block) ==
    block.type \in MediaKinds /\ block.content.type \in {"external", "file"}

\* mutant: only a missing url is skipped
SkippedUrlOnlyEmpty(url) == url = NoUrl

\* if (!url || url.startsWith('data:')) continue
SkippedUrl(url) == url = NoUrl \/ url = DataUri

\* if (uploads.length) transformedBlock[type] = {type: 'file_upload', file_upload: {id}}
FileUploadOrKeep(content, uploads) ==
    IF uploads # <<>>
    THEN [type |-> "file_upload", url |-> NoUrl, id |-> uploads[1].file_upload.id]
    ELSE content

RECURSIVE TransformMediaBlocks(_, _)
TransformMediaBlocks(blocks, uploadable) ==
    IF blocks = <<>> THEN <<>>
    ELSE LET block == Head(blocks)
             transformedBlock ==
                 IF block.has_children
                 THEN [block EXCEPT !.children = TransformMediaBlocks(@, uploadable)]
                 ELSE block
             rest == TransformMediaBlocks(Tail(blocks), uploadable)
         IN  IF MediaBranch(block)
             THEN IF SkippedUrl(block.content.url) THEN rest
                  ELSE <<[transformedBlock EXCEPT
                            !.content = FileUploadOrKeep(@, ProcessFile(@, uploadable))]>>
                       \o rest
             ELSE <<transformedBlock>> \o rest

BlockInit ==
    /\ impl = "index"
    /\ clock = StartClock
    /\ source = [s \in Sources |-> NoTime]
    /\ links = <<>>
    /\ target = [p \in PageIds |-> [state |-> "none", forSource |-> NoId]]
    /\ runs = 0
    /\ pc = "idle"
    /\ config = NoConfig
    /\ runtimeStart = NoTime
    /\ allPages = <<>>
    /\ eligiblePages = <<>>
    /\ idx = 0
    /\ existing = <<>>
    /\ needsSync = FALSE
    /\ newPage = NoId
    /\ link = NoLinkObj
    /\ err = ""
    /\ tally = ZeroTally
    /\ breaker = ZeroBreaker
    /\ orphans = <<>>
    /\ faults = 0
    /\ ghost = GhostInit
    /\ disk = NoDisk
    /\ result = NoResult
    /\ MediaIdle
    /\ xform \in [blocks : BlockTrees, uploadable : SUBSET {"u1", "u3"},
                  transformed : {<<>>}, returned : {FALSE}]
    /\ parts = NoParts
    /\ app = NoAppend
    /\ job = NoJob

blockFrame == <<impl, clock, source, links, target, runs, pc, config, runtimeStart,
                allPages, eligiblePages, idx, existing, needsSync, newPage, link, err,
                tally, breaker, orphans, faults, ghost, storeVars, mediaVars, parts, app, job>>

\* mediaMigrator.transformMediaBlocks(page.id, sanitized) runs and returns
CallTransformMediaBlocks ==
    /\ ~xform.returned
    /\ xform' = [xform EXCEPT !.transformed = TransformMediaBlocks(xform.blocks, xform.uploadable),
                              !.returned = TRUE]
    /\ UNCHANGED blockFrame

BlockNext == CallTransformMediaBlocks

BlockSpec == BlockInit /\ [][BlockNext]_vars

\* ------------------------------------------------- the byte ranges of the parts
Min(a, b) == IF a < b THEN a ELSE b

\* if (size <= this.chunkSizeBytes) _directUpload else _multiPartUpload
UploadMode(size) == IF size <= ChunkSize THEN "single_part" ELSE "multi_part"

\* const start = (partNumber - 1) * partSize
PartStart(partNumber) == (partNumber - 1) * ChunkSize

\* mutant: the end is taken as exclusive
PartEndExclusive(partNumber, size) == Min(PartStart(partNumber) + ChunkSize, size)

\* const end = Math.min(start + partSize, size) - 1, inclusive for createReadStream
PartEnd(partNumber, size) == Min(PartStart(partNumber) + ChunkSize, size) - 1

RangeInit ==
    /\ impl = "index"
    /\ clock = StartClock
    /\ source = [s \in Sources |-> NoTime]
    /\ links = <<>>
    /\ target = [p \in PageIds |-> [state |-> "none", forSource |-> NoId]]
    /\ runs = 0
    /\ pc = "idle"
    /\ config = NoConfig
    /\ runtimeStart = NoTime
    /\ allPages = <<>>
    /\ eligiblePages = <<>>
    /\ idx = 0
    /\ existing = <<>>
    /\ needsSync = FALSE
    /\ newPage = NoId
    /\ link = NoLinkObj
    /\ err = ""
    /\ tally = ZeroTally
    /\ breaker = ZeroBreaker
    /\ orphans = <<>>
    /\ faults = 0
    /\ ghost = GhostInit
    /\ disk = NoDisk
    /\ result = NoResult
    /\ MediaIdle
    /\ xform = NoTransform
    /\ parts \in [size : 0..MaxSize, mode : {""}, ranges : {<<>>}]
    /\ app = NoAppend
    /\ job = NoJob

rangeFrame == <<impl, clock, source, links, target, runs, pc, config, runtimeStart,
                allPages, eligiblePages, idx, existing, needsSync, newPage, link, err,
                tally, breaker, orphans, faults, ghost, storeVars, mediaVars, xform, app, job>>

\* _uploadFile picks the upload by the size of the file
UploadFile ==
    /\ parts.mode = ""
    /\ parts' = [parts EXCEPT !.mode = UploadMode(parts.size)]
    /\ UNCHANGED rangeFrame

\* _multiPartUpload: fs.createReadStream(filePath, { start, end }) of the next
\* part number of partNumbers
ReadPart ==
    /\ parts.mode = "multi_part"
    /\ Len(parts.ranges) < TotalParts(parts.size)
    /\ LET partNumber == Len(parts.ranges) + 1
       IN parts' = [parts EXCEPT !.ranges = Append(@,
                       [start |-> PartStart(partNumber),
                        end |-> PartEnd(partNumber, parts.size)])]
    /\ UNCHANGED rangeFrame

RangeNext == UploadFile \/ ReadPart

RangeSpec == RangeInit /\ [][RangeNext]_vars

\* ------------------------------------------------ appendBlocksRecursively
\* A block to write is [type, children], children a sequence of blocks; the page
\* the tree is written to has id RootId.
RootId == 100
WriteTypes == {"paragraph", "child_page"}

WriteLeaves == [type : WriteTypes, children : {<<>>}]

WriteBlocks == [type : WriteTypes, children : SeqsUpTo(WriteLeaves, MaxFanout)]

WriteTrees == SeqsUpTo(WriteBlocks, MaxFanout)

\* mutant: the children are queued under the parent of their parent
ChildEntriesUnderPid(children, createdId, pid, path) ==
    [k \in 1..Len(children) |->
        [parentId |-> pid, block |-> children[k], path |-> Append(path, k)]]

\* block.children.map(c => ({ parentId: createdBlockId, block: c }))
ChildEntries(children, createdId, pid, path) ==
    [k \in 1..Len(children) |->
        [parentId |-> createdId, block |-> children[k], path |-> Append(path, k)]]

\* mutant: any error is retried
ShouldRetryAnyError(code, i) == i < Retries - 1

\* if (err.code === 'conflict_error' && i < retries - 1)
ShouldRetry(code, i) == code = "conflict_error" /\ i < Retries - 1

AppendAnswers == {"ok", "conflict_error", "validation_error"}

AppendInit ==
    /\ impl = "index"
    /\ clock = StartClock
    /\ source = [s \in Sources |-> NoTime]
    /\ links = <<>>
    /\ target = [p \in PageIds |-> [state |-> "none", forSource |-> NoId]]
    /\ runs = 0
    /\ pc = "idle"
    /\ config = NoConfig
    /\ runtimeStart = NoTime
    /\ allPages = <<>>
    /\ eligiblePages = <<>>
    /\ idx = 0
    /\ existing = <<>>
    /\ needsSync = FALSE
    /\ newPage = NoId
    /\ link = NoLinkObj
    /\ err = ""
    /\ tally = ZeroTally
    /\ breaker = ZeroBreaker
    /\ orphans = <<>>
    /\ faults = 0
    /\ ghost = GhostInit
    /\ disk = NoDisk
    /\ result = NoResult
    /\ MediaIdle
    /\ xform = NoTransform
    /\ parts = NoParts
    /\ \E blocks \in WriteTrees :
          app = [NoAppend EXCEPT
                   !.pc = "loop", !.tree = blocks,
                   !.q = ChildEntries(blocks, RootId, RootId, <<>>)]
    /\ job = NoJob

appendFrame == <<impl, clock, source, links, target, runs, pc, config, runtimeStart,
                 allPages, eligiblePages, idx, existing, needsSync, newPage, link, err,
                 tally, breaker, orphans, faults, ghost, storeVars, mediaVars, xform, parts, job>>

\* while (q.length): const { parentId: pid, block } = q.shift(); a child_page goes
\* to notion.pages.create, any other block to safeAppendBlocks(pid, [block], 3)
Shift ==
    /\ app.pc = "loop"
    /\ app.q # <<>>
    /\ app' = [app EXCEPT
                 !.q = Tail(@),
                 !.pid = Head(app.q).parentId,
                 !.block = Head(app.q).block,
                 !.path = Head(app.q).path,
                 !.i = 0, !.attempts = 0, !.waits = <<>>, !.code = "",
                 !.pc = IF Head(app.q).block.type = "child_page" THEN "create" ELSE "append"]
    /\ UNCHANGED appendFrame

Wrote(a, how) ==
    [a EXCEPT
       !.written = Append(@, [path |-> a.path, under |-> a.pid, id |-> a.nextId, how |-> how]),
       !.nextId = @ + 1,
       !.q = @ \o ChildEntries(a.block.children, a.nextId, a.pid, a.path),
       !.pc = "loop"]

\* notion.pages.create({parent: {page_id: pid}, ..}); its error is not caught
CreateChildPage(ok) ==
    /\ app.pc = "create"
    /\ app' = IF ok THEN Wrote(app, "pages.create")
              ELSE [app EXCEPT !.pc = "threw", !.code = "create_failed"]
    /\ UNCHANGED appendFrame

\* one turn of the for loop of safeAppendBlocks: notion.blocks.children.append,
\* then return res, or sleep 500 * (i + 1) and continue, or throw err
AppendAttempt(answer) ==
    /\ app.pc = "append"
    /\ app.i < Retries
    /\ LET tried == [app EXCEPT !.attempts = @ + 1,
                                !.code = IF answer = "ok" THEN "" ELSE answer]
       IN app' = IF answer = "ok" THEN Wrote(tried, "append")
                 ELSE IF ShouldRetry(answer, app.i)
                      THEN [tried EXCEPT !.i = @ + 1,
                                         !.waits = Append(@, BackoffMs * (app.i + 1))]
                      ELSE [tried EXCEPT !.pc = "threw"]
    /\ UNCHANGED appendFrame

\* the queue is empty: appendBlocksRecursively returns
AppendReturn ==
    /\ app.pc = "loop"
    /\ app.q = <<>>
    /\ app' = [app EXCEPT !.pc = "done"]
    /\ UNCHANGED appendFrame

AppendNext ==
    \/ Shift
    \/ \E ok \in BOOLEAN : CreateChildPage(ok)
    \/ \E answer \in AppendAnswers : AppendAttempt(answer)
    \/ AppendReturn

\* the event loop runs every continuation that is ready
AppendSpec == AppendInit /\ [][AppendNext]_vars /\ WF_vars(AppendNext)

\* ------------------------------------------------------------ migrate_tasks.js
LinkStatuses == {"", "success", "fail"}

MigrateInit ==
    /\ impl = "index"
    /\ clock = StartClock
    /\ source = [s \in Sources |-> NoTime]
    /\ links = <<>>
    /\ target = [p \in PageIds |-> [state |-> "none", forSource |-> NoId]]
    /\ runs = 0
    /\ pc = "idle"
    /\ config = NoConfig
    /\ runtimeStart = NoTime
    /\ allPages = <<>>
    /\ eligiblePages = <<>>
    /\ idx = 0
    /\ existing = <<>>
    /\ needsSync = FALSE
    /\ newPage = NoId
    /\ link = NoLinkObj
    /\ err = ""
    /\ tally = ZeroTally
    /\ breaker = ZeroBreaker
    /\ orphans = <<>>
    /\ faults = 0
    /\ ghost = GhostInit
    /\ disk = NoDisk
    /\ result = NoResult
    /\ MediaIdle
    /\ xform = NoTransform
    /\ parts = NoParts
    /\ app = NoAppend
    /\ \E pages \in SeqsUpTo(LinkStatuses, MaxTasks) :
          job = [NoJob EXCEPT !.pc = "loop", !.before = pages, !.status = pages, !.k = 1]

migrateFrame == <<impl, clock, source, links, target, runs, pc, config, runtimeStart,
                  allPages, eligiblePages, idx, existing, needsSync, newPage, link, err,
                  tally, breaker, orphans, faults, ghost, storeVars, mediaVars, xform, parts,
                  app>>

\* for (const page of pages): existing?.status === 'success' -> skipped++,
\* processed++, continue; otherwise into the try
LoadExisting ==
    /\ job.pc = "loop"
    /\ job.k <= Len(job.status)
    /\ job' = IF job.status[job.k] = "success"
              THEN [job EXCEPT !.skipped = @ + 1, !.processed = @ + 1, !.k = @ + 1]
              ELSE [job EXCEPT !.pc = "transform"]
    /\ UNCHANGED migrateFrame

\* const payload = await transform(page, TASK_MAP): a throw lands in the outer
\* catch, which counts a SkipPage as skipped and continues, and anything else as
\* failed before it rethrows
TransformPage(outcome) ==
    /\ job.pc = "transform"
    /\ job' = IF outcome = "ok" THEN [job EXCEPT !.pc = "write"]
              ELSE IF outcome = "skip"
                   THEN [job EXCEPT !.skipped = @ + 1, !.k = @ + 1, !.pc = "loop"]
                   ELSE [job EXCEPT !.failed = @ + 1, !.pc = "aborted"]
    /\ UNCHANGED migrateFrame

\* writeToDBB and the save of the success link, or failed++ and the save of the
\* fail link in the inner catch; then processed++. A save that throws lands in the
\* outer catch
WritePage(written, saved) ==
    /\ job.pc = "write"
    /\ LET counted == [job EXCEPT !.failed = IF written THEN @ ELSE @ + 1,
                                  !.wrote = IF written THEN @ \cup {job.k} ELSE @]
       IN job' = IF saved
                 THEN [counted EXCEPT !.status[job.k] = IF written THEN "success" ELSE "fail",
                                      !.processed = @ + 1, !.k = @ + 1, !.pc = "loop"]
                 ELSE [counted EXCEPT !.failed = @ + 1, !.pc = "aborted"]
    /\ UNCHANGED migrateFrame

\* job.info({migrated: processed - skipped - failed, skipped, failed, total, ..})
Finish ==
    /\ job.pc = "loop"
    /\ job.k > Len(job.status)
    /\ job' = [job EXCEPT !.pc = "finished",
                          !.report = [migrated |-> job.processed - job.skipped - job.failed,
                                      skipped |-> job.skipped, failed |-> job.failed,
                                      total |-> Len(job.status)]]
    /\ UNCHANGED migrateFrame

MigrateNext ==
    \/ LoadExisting
    \/ \E outcome \in TransformOutcomes : TransformPage(outcome)
    \/ \E written \in BOOLEAN, saved \in BOOLEAN : WritePage(written, saved)
    \/ Finish

MigrateSpec == MigrateInit /\ [][MigrateNext]_vars

\* =================================================================== claims
CurrentId == eligiblePages[idx].id

AttemptEnded == ghost.outcome # ""

\* C1 as stated: a run that starts after a run which synced every record, with no
\* source page changed in between and force off, updates nothing: every record it
\* handles is skipped.
C1_RerunSkipsAll ==
    (ghost.rerun /\ ~config.force) =>
        /\ AttemptEnded => ghost.outcome = "skipped"
        /\ pc = "done" => tally.updated = 0

\* no fetched page was edited after the previous run's runtimeStart, that is,
\* within the grace period that run subtracted from its start time
EditedBeforePrevStart ==
    \A i \in 1..Len(allPages) : allPages[i].last_edited_time <= ghost.prevStart

\* C1 (amended): the same, for source pages last edited no later than the first
\* run's runtimeStart (its start floored to the minute, minus one minute).
C1_RerunSkipsAllOutsideGrace ==
    (ghost.rerun /\ ~config.force /\ pc # "filter" /\ EditedBeforePrevStart) =>
        /\ AttemptEnded => ghost.outcome = "skipped"
        /\ pc = "done" => tally.updated = 0 /\ tally.failed = 0

\* the second run ends over two synced pages, both outside the grace period
C1_Witness ==
    /\ pc = "done" /\ ghost.rerun /\ ~config.force /\ ~config.dryRun
    /\ Len(allPages) >= 2 /\ EditedBeforePrevStart
    /\ \A i \in 1..Len(allPages) :
          allPages[i].id \in DOMAIN links /\ links[allPages[i].id].status = "success"

\* C2: a drift replace in sync_task.js whose transform, write and archive calls
\* all succeed leaves the old target archived, the new target live, and the
\* link with status success, the new targetId, this run's syncedAt and a last
\* history entry for the old target with deletedAt set.
C2_DriftReplace ==
    (/\ impl = "index" /\ AttemptEnded /\ ~ghost.attemptFault
     /\ needsSync /\ ~config.dryRun
     /\ HasOldTarget /\ existing[1].status = "success"
     /\ source[existing[1].sourceId] > existing[1].syncedAt)
    => LET s == existing[1].sourceId
           G1 == existing[1].targetId
       IN /\ target[G1].state = "archived"
          /\ newPage # NoId /\ target[newPage].state = "live"
          /\ links[s].status = "success"
          /\ links[s].targetId = newPage
          /\ links[s].syncedAt = runtimeStart
          /\ links[s].history # <<>>
          /\ Last(links[s].history).targetId = G1
          /\ Last(links[s].history).deletedAt # NoTime
          /\ Last(links[s].history).notes = ReplacedNote

\* C3: when the write creates the target page and then throws, the reconciler
\* archives that page and persists a fail link with targetId null, the error
\* message as notes and the history stored before the attempt.
C3_FailedWriteRollback ==
    (impl \in {"index", "mono"} /\ AttemptEnded /\ err = "append failed")
    => LET s == link.sourceId
           G3 == Cardinality(Created)
       IN /\ target[G3].state = "archived"
          /\ links[s].status = "fail"
          /\ links[s].targetId = NoId
          /\ links[s].notes = err
          /\ links[s].history = ExistingHistory

\* C4's condition, written from the specification: force, or no link on file, or
\* the page edited strictly after the link's syncedAt
C4_Ground(p) ==
    \/ config.force
    \/ p.id \notin DOMAIN links
    \/ p.last_edited_time > links[p.id].syncedAt

\* C4: needsSync is true exactly when force is set, or no link can be loaded, or
\* the page's last_edited_time is strictly later than the link's syncedAt; the
\* pages filterEligible returns are exactly those (among the pages onlyId admits),
\* and syncTask decides the same for each of them.
C4_Eligibility ==
    /\ (impl = "index" /\ pc = "loop" /\ idx = 1) =>
          \A i \in 1..Len(allPages) :
              (allPages[i].id \in PageIdsOf(eligiblePages))
                  <=> (OnlyIdAdmits(config.onlyId, allPages[i].id) /\ C4_Ground(allPages[i]))
    /\ pc = "decide" => (needsSync <=> C4_Ground(eligiblePages[idx]))
    /\ (impl = "index" /\ pc = "decide") => needsSync

\* a run without force decides on a drifted page while a page whose timestamps
\* are equal was left out by the filter
C4_Witness ==
    /\ impl = "index" /\ pc = "decide" /\ ~config.force
    /\ existing # <<>> /\ needsSync
    /\ \E i \in 1..Len(allPages) :
          /\ allPages[i].id \notin PageIdsOf(eligiblePages)
          /\ allPages[i].id \in DOMAIN links
          /\ allPages[i].last_edited_time = links[allPages[i].id].syncedAt

\* C10: every persisted link with status success has a non-null targetId.
C10_SuccessHasTarget ==
    \A s \in DOMAIN links : links[s].status = "success" => links[s].targetId # NoId

\* a success link after a replace, next to a link that failed or was swept
C10_Witness ==
    \E s \in DOMAIN links :
        /\ links[s].status = "success" /\ links[s].history # <<>>
        /\ \E r \in DOMAIN links : links[r].status \in {"fail", "archived"}

\* C5: from the first step of a dry run to its end, orphan cleanup included, no
\* link is written or changed and no target page is created or archived, and
\* every record the run handles ends 'skipped'.
C5_DryRunMutatesNothing ==
    [][(impl = "index" /\ config.dryRun) =>
          /\ links' = links
          /\ target' = target
          /\ (ghost.outcome' # "" => ghost.outcome' = "skipped")]_vars

\* C6: a record whose sync failed in an earlier run, unmodified since, has a
\* success link with a live target once later runs with force off, in which
\* every transform, write and archive call succeeded, have gone over it: here
\* at the end of the second such run.
C6_RerunsConverge ==
    (impl \in {"index", "mono"} /\ WholeRun /\ ~ghost.callFailed) =>
        \A s \in ghost.retried :
            /\ links[s].status = "success"
            /\ links[s].targetId # NoId
            /\ target[links[s].targetId].state = "live"

\* the earlier history is a prefix of the later one, apart from a deletedAt set
\* on its last entry
HistoryExtends(old, new) ==
    /\ Len(old) <= Len(new)
    /\ \A i \in 1..Len(old) :
          \/ new[i] = old[i]
          \/ /\ i = Len(old)
             /\ old[i].deletedAt = NoTime
             /\ new[i] = [old[i] EXCEPT !.deletedAt = new[i].deletedAt]

\* C7: every save leaves each link's previously persisted history as a prefix of
\* its new history: no entry is removed, reordered or replaced, apart from the
\* deletedAt set on the last entry.
C7_HistoryAppendOnly ==
    [][\A s \in DOMAIN links :
          impl \in {"index", "mono"} =>
              HistoryExtends(links[s].history, links'[s].history)]_vars

\* an attempt on source s has saved and not yet returned
InAttempt(s) ==
    /\ pc \in {"archive", "resave", "catch", "savefail"}
    /\ eligiblePages[idx].id = s

\* C8: after N successive successful sync cycles for a source (a first sync and
\* N-1 drift replaces) its link names the last target and its history has N-1
\* entries, oldest first, one for each earlier target, each with deletedAt set.
C8_HistoryAfterCycles ==
    \A s \in Sources :
        (s \notin ghost.broken /\ ghost.chain[s] # <<>> /\ ~InAttempt(s)) =>
            /\ s \in DOMAIN links
            /\ links[s].status = "success"
            /\ links[s].targetId = Last(ghost.chain[s])
            /\ Len(links[s].history) = Len(ghost.chain[s]) - 1
            /\ \A i \in 1..Len(links[s].history) :
                  /\ links[s].history[i].targetId = ghost.chain[s][i]
                  /\ links[s].history[i].deletedAt # NoTime

\* three successful cycles of delta_sync.js for one source: two history entries
C8_Witness ==
    \E s \in Sources :
        /\ impl = "mono" /\ pc = "idle" /\ s \notin ghost.broken
        /\ Len(ghost.chain[s]) = 3
        /\ Len(links[s].history) = 2

\* every history entry with a deletedAt names an archived target page
DeletedMeansArchived(store, tgt) ==
    \A s \in DOMAIN store :
        \A i \in 1..Len(store[s].history) :
            store[s].history[i].deletedAt # NoTime =>
                /\ store[s].history[i].targetId # NoId
                /\ tgt[store[s].history[i].targetId].state = "archived"

\* the entries a save adds to the history on file all have deletedAt null
NewEntriesUnstamped ==
    \A s \in DOMAIN links' :
        \A i \in 1..Len(links'[s].history) :
            (s \notin DOMAIN links \/ i > Len(links[s].history)) =>
                links'[s].history[i].deletedAt = NoTime

C11_DeliberateSkip ==
    [][(impl \in {"index", "mono"} /\ IsSkipPage(err) /\ pc \in {"catch", "savefail"}) =>
          /\ links' = links
          /\ tally'.failed = tally.failed
          /\ breaker'.inARow = breaker.inARow /\ breaker'.total = breaker.total
          /\ (ghost'.outcome # "" => (ghost'.outcome = "skipped" /\ pc' = "loop"))]_vars

C13_CircuitBreaker ==
    [][/\ tally'.failed > tally.failed =>
              ((pc' # "loop") <=>
                  \/ breaker'.inARow >= 3
                  \/ breaker'.total >= 50
                  \/ /\ breaker'.processed >= 10
                     /\ 5 * breaker'.total > tally'.updated + tally'.skipped + tally'.failed)
       /\ (tally'.updated > tally.updated /\ tally'.failed = tally.failed) =>
              (breaker'.inARow = 0 /\ pc' = "loop")
       /\ pc # "loop" => (tally' = tally /\ breaker' = breaker)]_vars

\* the loop was stopped by the fiftieth failure, with fewer than 3 in a row and a
\* failure rate of at most 0.2
C13_Witness ==
    /\ pc = "sweep" /\ idx <= MaxRecords
    /\ breaker.total = 50 /\ breaker.inARow < 3
    /\ 5 * breaker.total <= tally.updated + tally.skipped + tally.failed

\* C14: the orphan sweep calls archive on the target of a success link whose
\* source is gone and persists the link with status archived and a history entry
\* recording the archival; over all runs the sweep's archive call for a target
\* returns once.
C14_OrphanSweptOnce ==
    [][(impl \in {"index", "mono"} /\ pc = "sweep" /\ orphans # <<>> /\ faults' = faults) =>
          LET o == Head(orphans) IN
          /\ o.status = "success" /\ o.sourceId \notin PageIdsOf(allPages)
          /\ ghost'.swept[o.targetId] = 1
          /\ target'[o.targetId].state = "archived"
          /\ links'[o.sourceId].status = "archived"
          /\ links'[o.sourceId].targetId = o.targetId
          /\ links'[o.sourceId].history # <<>>
          /\ Last(links'[o.sourceId].history).targetId = o.targetId]_vars

\* C15: the archive helper, as called for the old target of a replace and by the
\* orphan sweep, raises an error exactly when the update call fails with an
\* error other than 404: the replace lands in its catch, and the sweep leaves
\* the link as it was, only then.
C15_ArchiveToleratesNotFound ==
    [][/\ (impl \in {"index", "mono"} /\ pc = "archive") =>
              ((pc' = "catch") <=> (faults' # faults))
       /\ (impl \in {"index", "mono"} /\ pc = "sweep" /\ orphans # <<>>) =>
              ((links' = links) <=> (faults' # faults))]_vars

\* C16: every delta sync run reaches its final tally, whatever the outcomes of
\* its records and whether or not strict mode is set: no run ends before the
\* final log; a strict run in which a record failed ends with a non-zero exit
\* code.
C16_FinalTally ==
    impl \in {"index", "mono"} =>
        /\ pc # "crashed"
        /\ (pc = "done" /\ config.strictMode /\ tally.failed > 0) => ExitCode # 0

\* ---------------------------------------------------------------- C17
\* the file save has just written, and the file of the same key before the call
Saved == disk[result.type][result.id]

\* C17 (merge-on-save): a save of a record without a history writes the record
\* with the history the file of its (sourceId, type) held before the call, the
\* empty list when there was no file or the file held no history; a save of a
\* record with a history writes exactly that history; every other field is
\* written as given.
C17_MergeOnSave ==
    [][result'.op = "save" =>
          LET l == result'.arg[1]
              before == disk[result'.type]
              after == disk'[result'.type][l.sourceId]
          IN /\ \A f \in (DOMAIN l) \ {"history"} : Has(after, f) /\ after[f] = l[f]
             /\ Has(after, "history")
             /\ Has(l, "history") => after.history = l.history
             /\ ~Has(l, "history") =>
                   after.history =
                       IF /\ l.sourceId \in DOMAIN before
                          /\ Parses(before[l.sourceId])
                          /\ Has(before[l.sourceId], "history")
                       THEN before[l.sourceId].history
                       ELSE <<>>]_vars

\* a record without a history was saved over a file with a non-empty history,
\* and the file still holds that history
C17_Witness ==
    /\ result.op = "save"
    /\ ~Has(result.arg[1], "history")
    /\ Saved.history = <<ReplacedEntry>>

\* ---------------------------------------------------------------- C18
\* the value a key has in the stored data: <<>> when the data has no such key
Stored(data, f) == IF Has(data, f) THEN <<data[f]>> ELSE <<>>

\* a save writes the file of its own (sourceId, type) and no other
OtherKeysUnchanged ==
    result'.op = "save" =>
        \A type \in Types : \A sourceId \in DOMAIN disk[type] :
            (type # result'.type \/ sourceId # result'.id) =>
                /\ sourceId \in DOMAIN disk'[type]
                /\ disk'[type][sourceId] = disk[type][sourceId]

\* the Link a load returns against the file it read
LoadReturns(fields) ==
    (result'.op = "load" /\ ~result'.threw) =>
        LET data == disk[result'.type][result'.id]
            loaded == result'.link[1]
        IN /\ \A f \in fields : <<loaded[f]>> = Stored(data, f)
           /\ loaded.history = IF Has(data, "history") THEN data.history ELSE <<>>

\* C18 as stated (save/load round trip): load returns sourceId, targetId, status,
\* syncedAt, type, notes and history as the save stored them, history being the
\* empty list when the stored data has none; a save leaves every other key as it was.
C18_RoundTrip ==
    [][/\ LoadReturns({"sourceId", "targetId", "status", "syncedAt", "type", "notes"})
       /\ OtherKeysUnchanged]_vars

\* C18 (save/load round trip), as the code has it: load returns sourceId,
\* targetId, status, syncedAt and type as the save stored them, and notes and
\* history as stored when the stored data has them, the empty string and the
\* empty list when it has not; a save leaves every other key as it was.
C18_RoundTripDefaults ==
    [][/\ LoadReturns({"sourceId", "targetId", "status", "syncedAt", "type"})
       /\ (result'.op = "load" /\ ~result'.threw) =>
             result'.link[1].notes =
                 IF Has(disk[result'.type][result'.id], "notes")
                 THEN disk[result'.type][result'.id].notes
                 ELSE ""
       /\ OtherKeysUnchanged]_vars

\* a load returned the record of a file that holds a non-empty history and no
\* notes, while the other key of the partition holds a record too
C18_Witness ==
    /\ result.op = "load" /\ ~result.threw
    /\ ~Has(Saved, "notes") /\ result.link[1].notes = ""
    /\ result.link[1].history = <<ReplacedEntry>>
    /\ DOMAIN disk[result.type] = Sources

\* ---------------------------------------------------------------- C19
\* the key was never saved, or its file holds text that is not JSON
NoUsableFile(type, sourceId) ==
    sourceId \notin DOMAIN disk[type] \/ disk[type][sourceId] = Malformed

\* C19 (failed load): load of a key that was never saved, or whose file is
\* malformed, throws and returns no record, and no load changes the store;
\* filterEligible and syncTask take the failure for "no existing link" and decide
\* that the page needs sync, whatever its last_edited_time.
C19_FailedLoadIsFirstSync ==
    [][/\ result'.op = "load" =>
             /\ disk' = disk
             /\ result'.threw <=> NoUsableFile(result'.type, result'.id)
             /\ result'.threw => result'.link = <<>>
       /\ (result'.op = "decide" /\ NoUsableFile(result'.type, result'.id)) =>
             /\ disk' = disk
             /\ result'.link = <<>>
             /\ result'.needsSync = <<TRUE, TRUE>>]_vars

\* a page not edited since the epoch, whose link file is malformed, was taken
\* for a first-time sync by filterEligible and syncTask
C19_Witness ==
    /\ result.op = "decide"
    /\ result.id \in DOMAIN disk[result.type] /\ Saved = Malformed
    /\ result.arg = <<Epoch>>
    /\ result.link = <<>> /\ result.needsSync = <<TRUE, TRUE>>

\* ---------------------------------------------------------------- C20
\* C20 (findBySourcePageName): the record returned for (name, type) is the record
\* of a file of partition type whose sourcePageName is exactly name and whose
\* status is success, so never a fail or an archived one; null is returned exactly
\* when no file of the partition is of that name and status; the scan changes nothing.
C20_FindByName ==
    [][result'.op = "find" =>
          LET store == disk[result'.type]
              hits == {s \in DOMAIN store :
                          /\ store[s] # Malformed
                          /\ Has(store[s], "sourcePageName")
                          /\ store[s].sourcePageName = result'.name
                          /\ store[s].status = "success"}
          IN /\ disk' = disk
             /\ result'.link = <<>> <=> hits = {}
             /\ result'.link # <<>> =>
                   /\ result'.link[1].status = "success"
                   /\ result'.link[1].sourcePageName = result'.name
                   /\ \E s \in hits :
                         /\ result'.link[1].sourceId = store[s].sourceId
                         /\ result'.link[1].targetId = store[s].targetId]_vars

\* the scan returned the success record of the name although the same partition
\* also holds a fail or archived record of that name
C20_Witness ==
    /\ result.op = "find" /\ result.link # <<>>
    /\ \E s \in DOMAIN disk[result.type] :
          /\ disk[result.type][s] # Malformed
          /\ disk[result.type][s].sourcePageName = result.name
          /\ disk[result.type][s].status \in {"fail", "archived"}

Recorded(url) ==
    /\ url \in DOMAIN mig.manifest.downloads
    /\ mig.manifest.downloads[url].sha256 \in DOMAIN mig.manifest.uploads

\* C22 (resumability through the manifest): while processFiles is at a reference
\* to a url that the manifest records as downloaded and uploaded, no request is
\* sent, and the reference it adds to its result carries the upload id recorded
\* in the manifest.
C22_ResumeFromManifest ==
    [][(/\ call.pc \in {"next", "upload"} /\ call.k <= Len(call.files)
        /\ CurrentUrl # NoUrl /\ Recorded(CurrentUrl)
        /\ call' # call) =>
           /\ net'.req = NoReq
           /\ Len(call'.results) > Len(call.results) =>
                 Last(call'.results).id =
                     mig.manifest.uploads[mig.manifest.downloads[CurrentUrl].sha256].id]_vars

RECURSIVE Succeeded(_, _, _)
Succeeded(files, done, from) ==
    IF from > Len(files) \/ from > Len(done) THEN <<>>
    ELSE (IF done[from] = "ref" THEN <<files[from]>> ELSE <<>>)
         \o Succeeded(files, done, from + 1)

\* C24 (per-file isolation): processFiles never throws; when it returns, every
\* file of the list has been dealt with (skipped for want of a url, failed, or
\* turned into a reference), and its result holds exactly one reference for each
\* file that was downloaded and uploaded, in input order.
C24_PerFileIsolation ==
    /\ ~call.threw
    /\ (call.pc = "idle" /\ call.n > 0) =>
          /\ Len(call.done) = Len(call.files)
          /\ [j \in 1..Len(call.results) |-> call.results[j].name]
                 = Succeeded(call.files, call.done, 1)

\* a call returned one reference, for its second file, after its first file failed
C24_Witness ==
    /\ call.pc = "idle" /\ Len(call.files) = 2
    /\ call.done = <<"failed", "ref">>
    /\ Len(call.results) = 1 /\ call.results[1].name = call.files[2]

\* ---------------------------------------------------------------- C25
\* the upload in hand is a multi-part one
MultiPart == up.id # NoId /\ up.declared > 0

\* C25 (multi-part protocol order): the handle of a multi-part upload declares
\* ceil(size / chunkSize) parts; no part is sent twice; the completion request is
\* sent at most once, and only when every declared part has been sent once and
\* has succeeded; the status is polled only after the completion request; and a
\* reference is returned for the upload only on the status 'uploaded'.
C25_MultiPartOrder ==
    [][MultiPart' =>
          /\ call'.pc \in {"batch", "parts", "complete", "poll"} =>
                /\ up'.declared * ChunkSize >= call'.localInfo.size
                /\ (up'.declared - 1) * ChunkSize < call'.localInfo.size
          /\ \A part \in 1..up'.declared : up'.sent[part] <= 1
          /\ up'.acked \subseteq {part \in 1..up'.declared : up'.sent[part] = 1}
          /\ up'.completes <= 1
          /\ up'.completes = 1 =>
                (up'.acked = 1..up'.declared /\ up'.inFlight = {})
          /\ (call'.pc = "poll" \/ net'.req.kind = "status") => up'.completes = 1
          /\ (call.pc = "poll" /\ Len(call'.results) > Len(call.results)) =>
                (up'.status = "uploaded" /\ up'.completes = 1
                 /\ Last(call'.results).id = up'.id)]_vars

\* a multi-part upload of MaxParallel + 1 parts, in two batches, has returned
C25_Witness ==
    /\ MultiPart /\ up.declared = MaxParallel + 1
    /\ up.acked = 1..up.declared /\ up.completes = 1 /\ up.status = "uploaded"
    /\ Len(call.results) > 0 /\ Last(call.results).id = up.id

\* ---------------------------------------------------------------- C26
\* the batch a part belongs to, counted from 0
BatchOf(part) == (part - 1) \div MaxParallel

\* C26 (a failed part aborts the attempt): the step in which a part upload fails
\* ends the upload of the file with an error and adds nothing to the upload cache
\* or the manifest; from then on no part of a later batch has been or is sent for
\* that upload, no completion request is sent for it and no reference is returned
\* for it; and a reference to content this instance has not uploaded starts a new
\* upload with a create-upload request.
C26_FailedPartAborts ==
    [][/\ (up'.id = up.id /\ up'.refused # up.refused) =>
             /\ mig' = mig /\ manifestFile' = manifestFile
             /\ call'.pc = "next" /\ Last(call'.done) = "failed"
             /\ Len(call'.results) = Len(call.results)
       /\ (MultiPart' /\ up'.refused # {}) =>
             /\ call'.pc \notin {"batch", "parts", "complete", "poll"}
             /\ up'.completes = 0 /\ up'.status # "uploaded"
             /\ \A part \in up'.refused : \A later \in 1..up'.declared :
                   BatchOf(later) > BatchOf(part) => up'.sent[later] = 0
       /\ (/\ call.pc = "upload" /\ call.localInfo.sha256 \notin net.uploaded
           /\ call' # call) =>
              (net'.req.kind = "create" /\ net'.req.key = call.localInfo.sha256)]_vars

\* the first part of a three-part upload failed while the second part of its
\* batch was in flight: the third part was never sent, nothing was completed or
\* cached, and processFiles is at the next file
C26_Witness ==
    /\ MultiPart /\ up.declared = MaxParallel + 1
    /\ up.refused = {1} /\ up.acked = {} /\ net.stray > 0
    /\ up.sent[up.declared] = 0 /\ up.completes = 0
    /\ call.pc = "next" /\ mig.uploadCache = <<>>

\* ---------------------------------------------------------------- C27
\* C27 (bounded status polling): _waitUntilUploaded sends at most MaxAttempts (15)
\* status requests and is over once the last of them is answered; it returns only
\* on the answer 'uploaded', and it throws as soon as an answer is 'expired' or
\* 'failed' and when the 15th answer is still not terminal.
C27_BoundedPolling ==
    /\ wait.requests <= MaxAttempts
    /\ wait.requests = MaxAttempts => wait.pc # "polling"
    /\ wait.pc = "returned" <=> wait.status = "uploaded"
    /\ wait.status \in {"expired", "failed"} => wait.pc = "threw"
    /\ (wait.requests = MaxAttempts /\ wait.status # "uploaded") => wait.pc = "threw"
    /\ wait.pc = "polling" => wait.status \in {"", "pending"}

\* fourteen pending answers and a fifteenth: the call gave up with an error
C27_Witness ==
    wait.pc = "threw" /\ wait.requests = MaxAttempts /\ wait.status = "pending"

\* ---------------------------------------------------------------- C28
\* C28 (bounded part concurrency): at every moment of a multi-part upload at
\* most MaxParallel of its part uploads are in flight, and a part has been sent
\* only if every part of every earlier batch has completed successfully.
C28_BoundedPartConcurrency ==
    MultiPart =>
        /\ Cardinality(up.inFlight) <= MaxParallel
        /\ \A part \in 1..up.declared : up.sent[part] >= 1 =>
              \A earlier \in 1..up.declared : BatchOf(earlier) < BatchOf(part) =>
                  (earlier \in up.acked /\ earlier \notin up.refused
                   /\ earlier \notin up.inFlight)

\* the second batch is in flight after the MaxParallel parts of the first batch
\* have all succeeded
C28_Witness ==
    /\ MultiPart /\ call.pc = "parts"
    /\ up.acked = 1..MaxParallel
    /\ up.inFlight = {MaxParallel + 1}

\* ---------------------------------------------------------------- C30
\* the requests of the media migrator that go to the target API
TargetRequests == {"create", "send", "part", "complete", "status"}

\* C30 (one limiter for the target API): every request the media migrator sends
\* to the target API goes through the limiter of the shared client, and at most
\* one request to the target API is in flight at any time.
C30_AllThroughLimiter ==
    [][/\ net'.req.kind \in TargetRequests => net'.req.via = "limiter"
       /\ Cardinality(up'.inFlight) + net'.stray <= 1]_vars


\* the steps of syncTask between the loop head and the record's result
InSyncTask == pc \in {"decide", "transform", "write", "save", "archive", "resave",
                      "catch", "savefail"}

\* results main has tallied so far
Tallied == tally.updated + tally.skipped + tally.failed

\* C29: one record at a time. While a record is in syncTask every earlier record
\* of the run has its result and no later one has been started; a step writes
\* only the ledger entry and the target pages of the record in hand; the next
\* record is started, and the orphan sweep entered, only from the loop head,
\* and the sweep only once every eligible record has its result.
C29_SequentialRecords ==
    [][impl = "index" =>
         /\ (InSyncTask /\ pc' # "crashed") =>
               /\ idx \in 1..Len(eligiblePages)
               /\ Tallied = idx - 1
               /\ \A s \in Sources \ {eligiblePages[idx].id} :
                     LoadOrNull(links', s) = LoadOrNull(links, s)
               /\ \A p \in PageIds :
                     target'[p] # target[p] => target'[p].forSource = eligiblePages[idx].id
               /\ idx' \in {idx, idx + 1}
               /\ idx' = idx + 1 <=> pc' = "loop"
               /\ pc' = "loop" => Tallied' = idx
         /\ (pc' = "decide" /\ pc # "decide") => (pc = "loop" /\ Tallied = idx - 1)
         /\ (pc' = "sweep" /\ pc # "sweep") =>
               /\ pc = "loop"
               /\ Tallied = Len(eligiblePages)
               /\ links' = links /\ target' = target]_vars

\* C29 witness: a run over two records, one synced and one failed, is in the sweep
C29_Witness ==
    /\ impl = "index"
    /\ pc = "sweep"
    /\ Len(eligiblePages) = 2
    /\ tally.updated = 1
    /\ tally.failed = 1


\* the blocks transformMediaBlocks skips
Dropped(block) ==
    /\ block.type \in MediaKinds
    /\ block.content.type \in {"external", "file"}
    /\ (block.content.url = NoUrl \/ block.content.url = DataUri)

\* out is the tree in with the dropped blocks left out at every level, in the
\* original order, every block that is not a media block with its content
RECURSIVE PassedThrough(_, _)
PassedThrough(in, out) ==
    LET kept == SelectSeq(in, LAMBDA b : ~Dropped(b))
    IN  /\ Len(out) = Len(kept)
        /\ \A i \in 1..Len(kept) :
              /\ out[i].type = kept[i].type
              /\ out[i].has_children = kept[i].has_children
              /\ kept[i].type \notin MediaKinds => out[i].content = kept[i].content
              /\ PassedThrough(kept[i].children, out[i].children)

\* C31: the array transformMediaBlocks returns is its argument, in order, less the
\* image, file, pdf and video blocks with an external or file object whose url is
\* empty or a data URI; blocks of other kinds keep their content, and children
\* follow the same rule.
C31_PassThroughAndDrop == xform.returned => PassedThrough(xform.blocks, xform.transformed)

\* C31 witness: of two blocks, a toggle whose only child is a data-URI image and a
\* pdf without url, the call returned the toggle alone, now childless
C31_Witness ==
    /\ xform.returned
    /\ Len(xform.blocks) = 2
    /\ xform.blocks[1].type = "toggle"
    /\ Len(xform.blocks[1].children) = 1
    /\ xform.blocks[1].children[1].type = "image"
    /\ xform.blocks[1].children[1].content.url = DataUri
    /\ xform.blocks[2].type = "pdf"
    /\ xform.blocks[2].content.type = "file"
    /\ xform.blocks[2].content.url = NoUrl
    /\ Len(xform.transformed) = 1
    /\ xform.transformed[1].type = "toggle"
    /\ xform.transformed[1].children = <<>>


\* a media block whose object is external or source-hosted, with a usable url
Rewritable(block) ==
    block.type \in MediaKinds /\ block.content.type \in {"external", "file"} /\ ~Dropped(block)

\* every rewritable block of in that reached out refers to the upload of its
\* content and to no url
RECURSIVE Rewritten(_, _)
Rewritten(in, out) ==
    LET kept == SelectSeq(in, LAMBDA b : ~Dropped(b))
    IN  \A i \in 1..Len(kept) :
           /\ Rewritable(kept[i]) =>
                 /\ out[i].content.type = "file_upload"
                 /\ out[i].content.id = UploadIdOf(Sha256(kept[i].content.url))
                 /\ out[i].content.url = NoUrl
           /\ Rewritten(kept[i].children, out[i].children)

\* C32 as stated: every image, file, pdf or video block of the returned array
\* whose input had an external or source-hosted url (not empty, not a data URI)
\* carries a file_upload reference to an upload of that content and no longer
\* the source url.
C32_MediaRewritten == xform.returned => Rewritten(xform.blocks, xform.transformed)


\* the bytes of the inclusive range r
Bytes(r) == {b \in 0..MaxSize : r.start <= b /\ b <= r.end}

\* the least number of chunks that hold size bytes
Ceiling(size) == CHOOSE n \in 0..MaxSize : n * ChunkSize >= size /\ (n - 1) * ChunkSize < size

\* C33: a file larger than the chunk size is read in ceil(size / chunk) ranges,
\* each non-empty, each starting right after the one before, the first at byte 0
\* and the last ending at byte size - 1, no two sharing a byte; a file of at most
\* the chunk size goes up directly and is never read in parts.
C33_RangesPartition ==
    /\ parts.mode # "" => (parts.mode = "multi_part" <=> parts.size > ChunkSize)
    /\ parts.mode = "single_part" => parts.ranges = <<>>
    /\ \A p \in 1..Len(parts.ranges) :
          /\ parts.ranges[p].start <= parts.ranges[p].end
          /\ parts.ranges[p].start = IF p = 1 THEN 0 ELSE parts.ranges[p - 1].end + 1
          /\ \A q \in 1..Len(parts.ranges) :
                p # q => Bytes(parts.ranges[p]) \cap Bytes(parts.ranges[q]) = {}
    /\ Len(parts.ranges) <= Ceiling(parts.size)
    /\ (parts.mode = "multi_part" /\ ~ENABLED ReadPart) =>
          /\ Len(parts.ranges) = Ceiling(parts.size)
          /\ UNION {Bytes(parts.ranges[p]) : p \in 1..Len(parts.ranges)} = 0..(parts.size - 1)

\* C33 witness: a file of three chunks and one byte has been read in four parts,
\* the last of one byte
C33_Witness ==
    /\ parts.size = 3 * ChunkSize + 1
    /\ Len(parts.ranges) = 4
    /\ parts.ranges[4].start = parts.ranges[4].end


\* the sweep handles an orphan in this step
Sweeps == pc = "sweep" /\ orphans' # orphans

\* C34: a step of the orphan sweep archives no target page of a record whose
\* source is among the pages the run fetched, and rewrites no ledger record but
\* one that had status success and whose source was not fetched; when the archive
\* call fails the ledger is left as it was, and in either case the sweep goes on
\* to the next orphan, ending only when none is left.
C34_SweepSafety ==
    [][/\ Sweeps =>
            /\ \A p \in PageIds :
                  target'[p] # target[p] =>
                     \A s \in PageIdsOf(allPages) :
                        LoadOrNull(links, s) = <<>> \/ LoadOrNull(links, s)[1].targetId # p
            /\ \A s \in Sources :
                  LoadOrNull(links', s) # LoadOrNull(links, s) =>
                     /\ s \notin PageIdsOf(allPages)
                     /\ LoadOrNull(links, s) # <<>>
                     /\ LoadOrNull(links, s)[1].status = "success"
                     /\ LoadOrNull(links', s)[1].status = "archived"
            /\ faults' # faults => (links' = links /\ target' = target)
            /\ orphans' = Tail(orphans)
            /\ pc' = "sweep"
       /\ (pc = "sweep" /\ pc' # "sweep") => orphans = <<>>]_vars

\* C34 witness: both sources are gone; archiving the first orphan failed, its
\* record still has status success, and the sweep is at the second orphan
C34_Witness ==
    /\ pc = "sweep"
    /\ allPages = <<>>
    /\ faults = 1
    /\ ghost.callFailed
    /\ Len(orphans) = 1
    /\ \E s \in Sources \ {orphans[1].sourceId} :
          /\ LoadOrNull(links, s) # <<>>
          /\ LoadOrNull(links, s)[1].status = "success"
          /\ target[LoadOrNull(links, s)[1].targetId].state = "live"


\* C35: safeAppendBlocks makes at most 3 appends. It makes a further one only
\* after a conflict_error, having slept 500 ms times the number of the attempt
\* that failed; any other error, and a conflict on the third attempt, is thrown
\* at once.
C35_BoundedConflictRetry ==
    [][/\ app'.attempts <= 3
       /\ (app.pc = "append" /\ app'.attempts = app.attempts + 1) =>
             /\ app'.pc = "append" =>
                   /\ app'.code = "conflict_error"
                   /\ app'.attempts < 3
                   /\ app'.waits = Append(app.waits, 500 * app'.attempts)
             /\ (app'.code \notin {"", "conflict_error"}) =>
                   (app'.pc = "threw" /\ app'.waits = app.waits)
             /\ (app'.code = "conflict_error" /\ app'.attempts = 3) =>
                   (app'.pc = "threw" /\ app'.waits = app.waits)
             /\ app'.code = "" => app'.pc = "loop"
             /\ app.attempts > 0 =>
                   (app.code = "conflict_error" /\ Len(app.waits) = app.attempts)]_vars

\* C35 witness: the third append of a block met a conflict and the error was
\* thrown, after waits of 500 and 1000 ms
C35_Witness ==
    /\ app.pc = "threw"
    /\ app.attempts = 3
    /\ app.code = "conflict_error"
    /\ app.waits = <<500, 1000>>


\* the paths of the blocks of a tree of depth two
Nodes(tree) ==
    {<<k>> : k \in 1..Len(tree)}
        \cup UNION {{<<k, j>> : j \in 1..Len(tree[k].children)} : k \in 1..Len(tree)}

ParentPath(path) == SubSeq(path, 1, Len(path) - 1)

WrittenOrder ==
    \A n \in 1..Len(app.written) :
       LET w == app.written[n]
       IN  /\ w.path \in Nodes(app.tree)
           /\ \A m \in 1..Len(app.written) :
                 m # n => (app.written[m].path # w.path /\ app.written[m].id # w.id)
           /\ Len(w.path) = 1 => w.under = 100
           /\ Len(w.path) = 2 =>
                 \E m \in 1..(n - 1) :
                    /\ app.written[m].path = ParentPath(w.path)
                    /\ app.written[m].id = w.under
           /\ \A m \in 1..(n - 1) :
                 ParentPath(app.written[m].path) = ParentPath(w.path) =>
                    Last(app.written[m].path) < Last(w.path)

AllWritten == {app.written[n].path : n \in 1..Len(app.written)} = Nodes(app.tree)

OneEntryAdded(old, new, key, id) ==
    /\ DOMAIN new = DOMAIN old \cup {key}
    /\ new[key].id = id
    /\ \A k \in DOMAIN old \ {key} : new[k] = old[k]

\* C37: the upload cache and manifest.uploads change only in the step in which
\* the status of the upload in hand is read as 'uploaded', and then by the one
\* entry that names that upload; a step that ends a file in an error leaves both
\* as they were; flush writes the entries of the cache, and init() brings in no
\* entry the manifest file does not hold.
C37_CacheHoldsConfirmedUploads ==
    [][/\ (/\ net'.restarts = net.restarts
           /\ \/ mig'.uploadCache # mig.uploadCache
              \/ mig'.manifest.uploads # mig.manifest.uploads) =>
             /\ net'.req.kind = "status"
             /\ up'.status = "uploaded"
             /\ up'.id = up.id
             /\ OneEntryAdded(mig.uploadCache, mig'.uploadCache, call.localInfo.sha256, up.id)
             /\ OneEntryAdded(mig.manifest.uploads, mig'.manifest.uploads,
                              call.localInfo.sha256, up.id)
       /\ (Len(call'.done) = Len(call.done) + 1 /\ Last(call'.done) = "failed") =>
             /\ mig'.uploadCache = mig.uploadCache
             /\ mig'.manifest.uploads = mig.manifest.uploads
             /\ manifestFile' = manifestFile
       /\ manifestFile' # manifestFile => manifestFile'[1].uploads = mig.uploadCache
       /\ net'.restarts # net.restarts =>
             /\ mig'.uploadCache = <<>>
             /\ mig'.manifest.uploads =
                   IF manifestFile = <<>> THEN <<>> ELSE manifestFile[1].uploads]_vars

\* C37 witness: with the upload of content a in the cache, the upload of content b
\* ended at the status poll with an error and the cache still holds a alone
C37_Witness ==
    /\ call.pc = "next"
    /\ call.done # <<>> /\ Last(call.done) = "failed"
    /\ net.req.kind = "status"
    /\ net.req.key = "b"
    /\ DOMAIN mig.uploadCache = {"a"}
    /\ DOMAIN mig.manifest.uploads = {"a"}


\* C38 as stated: init() on a new MediaMigrator restores both caches to the
\* entries the manifest file got from the last flush, and a flush() made right
\* after init() leaves the downloads and uploads of the manifest file as they were.
C38_ManifestRoundTrip ==
    [][/\ (net'.restarts # net.restarts /\ manifestFile # <<>>) =>
             /\ mig'.downloadCache = manifestFile[1].downloads
             /\ mig'.uploadCache = manifestFile[1].uploads
       /\ (manifestFile # <<>> /\ mig = MigratorInit(manifestFile)) =>
             manifestFile' = manifestFile]_vars


\* the target pages that are not archived
LivePages == {p \in PageIds : target[p].state = "live"}

\* some record of the ledger has p for its targetId or in its history
Tracked(p) ==
    \E l \in LoadAll(links) :
       \/ l.targetId = p
       \/ \E n \in 1..Len(l.history) : l.history[n].targetId = p

\* C39 as stated: when a run of delta_sync/index.js or delta_sync.js has ended,
\* whatever calls failed in it, no source record has two live target pages and
\* every live target page is the targetId of a ledger record or in the history of
\* one.
C39_NoDuplicateOrUntrackedTargets ==
    (impl \in {"index", "mono"} /\ pc \in {"done", "crashed"}) =>
        /\ \A p, q \in LivePages : target[p].forSource = target[q].forSource => p = q
        /\ \A p \in LivePages : Tracked(p)


\* C40 as stated: when migrate_tasks finishes, migrated + skipped + failed = total
\* in its report, migrated is the number of pages written in this run, and no
\* page whose link had status success was written.
C40_TallyConsistency ==
    /\ \A k \in job.wrote : job.before[k] # "success"
    /\ job.pc = "finished" =>
          /\ job.report.migrated + job.report.skipped + job.report.failed = job.report.total
          /\ job.report.migrated = Cardinality(job.wrote)

============================================================================
